---- MODULE Spec2Model ----
(***************************************************************************)
(* Pupil_labs_batch_exporter: the recording migration of                   *)
(* from_pupil/player_methods.py (update_recording_to_recent and the steps  *)
(* it calls), as a state machine over one recording directory.             *)
(*                                                                         *)
(* A run of update_recording_to_recent is a sequence of actions, one per   *)
(* statement group of the function: the prologue, the bytes-to-unicode     *)
(* conversion, the legacy dispatch, one gate per incremental step, the     *)
(* worldless check.  A step that raises ends the run (pc = "raised"): the  *)
(* function has no try/except around its steps.                            *)
(***************************************************************************)
EXTENDS Integers, Sequences, FiniteSets, TLC

\* ------------------------------------------------------------------ bounds
\* Declared versions are drawn from the grid 0..MaxMajor . 0..MaxMinor
\* [. 0..MaxPatch]; update_recording_to_recent is run up to MaxRuns times on
\* the same recording.
MaxMajor == 1
MaxMinor == 9
MaxPatch == 15
MaxRuns == 2

\* ------------------------------------------------------------ version text
\* A version string as it stands in info.csv: an optional letter prefix
\* ("v0.8.2" as the steps write it, "0.9.0" as a capture may declare it) and
\* two or three numeric components.
VStr(pre, parts) == [v |-> pre, parts |-> parts]

\* VersionFormat: the ordered triple (major, minor, patch); a missing patch
\* defaults to 0.
VersionFormat(parts) ==
    IF Len(parts) = 2 THEN <<parts[1], parts[2], 0>> ELSE parts

\* Lexicographic order on (major, minor, patch).
VLess(a, b) ==
    \/ a[1] < b[1]
    \/ a[1] = b[1] /\ a[2] < b[2]
    \/ a[1] = b[1] /\ a[2] = b[2] /\ a[3] < b[3]

VLeq(a, b) == a = b \/ VLess(a, b)

\* ---------------------------------------------------------------- metadata
DFV == "Data Format Version"
CSW == "Capture Software"
RNAME == "Recording Name"

\* read_rec_version: the declared version of the metadata, letters stripped
\* (line 214 stamps "v0.9.4" and line 218 reads it back as 0.9.4).
\* read_rec_version and VersionFormat come from version_utils, which is not
\* among the source files (its import is commented out at line 26): they
\* follow the SemanticVersion of the specification.  The same holds for av,
\* the media layer of the 0.9.13 step (line 18).
read_rec_version(meta_info) == VersionFormat(meta_info[DFV].parts)

VARIABLES
    meta,         \* info.csv: the persisted key/value metadata
    files,        \* which files of the recording directory exist
    touched,      \* the steps whose data transformation is saved on disk
    pc,           \* position of the current run in update_recording_to_recent
    rec_version,  \* the local rec_version of the current run (<<>> before line 218)
    tested,       \* history: the incremental steps whose gate this run evaluated
    called,       \* history: the steps this run called, in call order
    completed,    \* history: the steps of this run that returned, in order
    failed,       \* history: the step that raised in this run, or "none"
    meta0,        \* history: the metadata when this run started
    prev,         \* history: completed and failed of the previous run
    runs,         \* number of runs started
    transcodes,   \* history: the outcomes of this run's transcode attempts
    bisector,     \* the fields of a Bisector, Mutable_Bisector or Affiliator
    supplied,     \* history: the arguments the index was built and fed with
    outcome,      \* the last call on the index and what it returned or raised
    corr,         \* one call of correlate_data: its locals and its position
    batch,        \* one call of extract_diameter.main: disk, locals, history
    pdata,        \* the pupil_data object of a recording and the steps applied
    gui           \* the dragApp window: its fields, its widgets, the folders

vars == <<meta, files, touched, pc, rec_version, tested, called, completed,
          failed, meta0, prev, runs, transcodes, bisector, supplied, outcome,
          corr, batch, pdata, gui>>

\* The variables of the migration and those of the timestamp indexes.
migVars == <<meta, files, touched, pc, rec_version, tested, called, completed,
             failed, meta0, prev, runs, transcodes>>

bisVars == <<bisector, supplied, outcome>>

\* The variables of correlate_data, of the diameter export and of the event
\* data of the field-transforming steps.
restVars == <<corr, batch, pdata, gui>>

\* Before any index is constructed.
NoIndex ==
    [kind |-> "none", data |-> <<>>, data_ts |-> <<>>, stop_ts |-> <<>>,
     sorted_idc |-> <<>>]

NoArguments == [data |-> <<>>, data_ts |-> <<>>, stop_ts |-> <<>>, inserted |-> <<>>]

NoCall == [op |-> "none", args |-> <<>>, raised |-> "none", value |-> <<>>]

\* Before correlate_data is called.
NoCorrelation ==
    [pc |-> "idle", given |-> <<>>, data |-> <<>>, timestamps |-> <<>>,
     data_by_frame |-> <<>>, frame_idx |-> 0, data_index |-> 0,
     iterations |-> 0]

\* Before extract_diameter.main is called.
NoBatch == [pc |-> "idle"]

\* No pupil_data object loaded.
NoEventData == [pc |-> "idle"]

\* Before dragApp() is constructed.
NoGui == [pc |-> "closed"]

\* ------------------------------------------------------------- step names
LegacySteps == {"v073_to_v074", "v05_to_v074", "v04_to_v074", "v03_to_v074"}

IncrementalSteps ==
    {"v074_to_v082", "v082_to_v083", "v083_to_v086", "v086_to_v087",
     "v087_to_v091", "v091_to_v093", "v093_to_v094", "v094_to_v0913",
     "v0913_to_v0915", "v0915_v13", "v13_v14", "v14_v18", "v18_v19"}

\* The steps update_recording_to_recent selects by comparing rec_version.
PlanSteps == LegacySteps \cup IncrementalSteps

\* ------------------------------------------------------ metadata file access
\* load_meta_info reads the key/value file into a dict.
load_meta_info == meta

\* update_meta_info(rec_dir, meta_info) rewrites info.csv from the dict:
\* the file afterwards holds exactly the dict's keys and values.
update_meta_info(meta_info) == meta_info

\* meta_info["Data Format Version"] = new_version on a dict.
SetVersion(meta_info, new_version) ==
    [k \in DOMAIN meta_info \cup {DFV} |->
        IF k = DFV THEN new_version ELSE meta_info[k]]

\* Variant of _update_info_version_to that writes a fresh dict holding only
\* the version key instead of updating the loaded one.
FreshDict_update_info_version_to(new_version) ==
    update_meta_info([k \in {DFV} |-> new_version])

\* _update_info_version_to: load, set the version key, write back.
\* The value is the new content of info.csv.
_update_info_version_to(new_version) ==
    update_meta_info(SetVersion(load_meta_info, new_version))

\* ------------------------------------------------- call/return bookkeeping
\* A called step returns to the caller, which goes on at `next`.
Returns(step, next) ==
    /\ pc' = next
    /\ called' = Append(called, step)
    /\ completed' = Append(completed, step)
    /\ UNCHANGED failed

\* A called step raises: nothing in update_recording_to_recent catches it,
\* so the run ends with the exception.
Raises(step) ==
    /\ pc' = "raised"
    /\ called' = Append(called, step)
    /\ failed' = step
    /\ UNCHANGED completed

\* A gate whose condition is false: the step is not called.
Skip(next) ==
    /\ pc' = next
    /\ UNCHANGED <<meta, files, touched, called, completed, failed>>

\* ------------------------------------------------------------ the steps

\* Variant of update_recording_v074_to_v082 that returns without persisting
\* its version.
Unpersisted_update_recording_v074_to_v082(next) ==
    /\ Returns("v074_to_v082", next)
    /\ UNCHANGED <<meta, files, touched>>

\* update_recording_v074_to_v082 (lines 369-370): only persists its version.
update_recording_v074_to_v082(next) ==
    /\ meta' = _update_info_version_to(VStr(TRUE, <<0, 8, 2>>))
    /\ Returns("v074_to_v082", next)
    /\ UNCHANGED <<files, touched>>

\* Variant of update_recording_v082_to_v083 whose missing-file error is
\* caught and logged: the step is abandoned and the caller goes on.
Caught_update_recording_v082_to_v083(next) ==
    IF ~files.pupil_data
    THEN /\ pc' = next
         /\ called' = Append(called, "v082_to_v083")
         /\ UNCHANGED <<meta, files, touched, completed, failed>>
    ELSE /\ touched' = touched \cup {"v082_to_v083"}
         /\ meta' = _update_info_version_to(VStr(TRUE, <<0, 8, 3>>))
         /\ Returns("v082_to_v083", next)
         /\ UNCHANGED files

\* update_recording_v082_to_v083 (lines 373-383): fm.load_object(pupil_data) raises
\* when the file is missing; otherwise gaze field base is renamed base_data,
\* the object is saved and the version is persisted as the last statement.
update_recording_v082_to_v083(next) ==
    IF ~files.pupil_data
    THEN /\ Raises("v082_to_v083")
         /\ UNCHANGED <<meta, files, touched>>
    ELSE /\ touched' = touched \cup {"v082_to_v083"}
         /\ meta' = _update_info_version_to(VStr(TRUE, <<0, 8, 3>>))
         /\ Returns("v082_to_v083", next)
         /\ UNCHANGED files

\* update_recording_v083_to_v086 (lines 386-396): fm.load_object(pupil_data) raises
\* when the file is missing; otherwise each datum's topic is set to its stream name,
\* the object is saved and the version is persisted as the last statement.
update_recording_v083_to_v086(next) ==
    IF ~files.pupil_data
    THEN /\ Raises("v083_to_v086")
         /\ UNCHANGED <<meta, files, touched>>
    ELSE /\ touched' = touched \cup {"v083_to_v086"}
         /\ meta' = _update_info_version_to(VStr(TRUE, <<0, 8, 6>>))
         /\ Returns("v083_to_v086", next)
         /\ UNCHANGED files

\* update_recording_v086_to_v087 (lines 399-418): fm.load_object(pupil_data) raises
\* when the file is missing; otherwise gaze topic is defaulted and norm_pos clamped,
\* the object is saved and the version is persisted as the last statement.
update_recording_v086_to_v087(next) ==
    IF ~files.pupil_data
    THEN /\ Raises("v086_to_v087")
         /\ UNCHANGED <<meta, files, touched>>
    ELSE /\ touched' = touched \cup {"v086_to_v087"}
         /\ meta' = _update_info_version_to(VStr(TRUE, <<0, 8, 7>>))
         /\ Returns("v086_to_v087", next)
         /\ UNCHANGED files

\* update_recording_v087_to_v091 (lines 421-423): only persists its version.
update_recording_v087_to_v091(next) ==
    /\ meta' = _update_info_version_to(VStr(TRUE, <<0, 9, 1>>))
    /\ Returns("v087_to_v091", next)
    /\ UNCHANGED <<files, touched>>

\* update_recording_v091_to_v093 (lines 426-435): fm.load_object(pupil_data) raises
\* when the file is missing; otherwise gaze norm_pos is cast to floats,
\* the object is saved and the version is persisted as the last statement.
update_recording_v091_to_v093(next) ==
    IF ~files.pupil_data
    THEN /\ Raises("v091_to_v093")
         /\ UNCHANGED <<meta, files, touched>>
    ELSE /\ touched' = touched \cup {"v091_to_v093"}
         /\ meta' = _update_info_version_to(VStr(TRUE, <<0, 9, 3>>))
         /\ Returns("v091_to_v093", next)
         /\ UNCHANGED files

\* update_recording_v093_to_v094 (lines 438-457): re-saves every object file;
\* both load attempts sit inside bare excepts, so nothing propagates.
update_recording_v093_to_v094(next) ==
    /\ touched' = touched \cup {"v093_to_v094"}
    /\ meta' = _update_info_version_to(VStr(TRUE, <<0, 9, 4>>))
    /\ Returns("v093_to_v094", next)
    /\ UNCHANGED files

\* What the media layer does with one transcode attempt: it succeeds, raises
\* AVError with errno 22 while encoding, raises AVError with errno 22 when the
\* input is opened (line 469, before out_container is bound), or raises
\* another error.
TranscodeOutcomes == {"ok", "averr22", "averr22_open", "error"}

\* An attempt that raised before any container was opened.  When it is
\* AVError 22 in the first call, out_container.close() of line 529 raises
\* UnboundLocalError in the handler, which leaves the step.
OpenFails ==
    /\ Raises("v094_to_v0913")
    /\ UNCHANGED <<meta, files, touched>>

\* A transcode attempt that raised has opened audio.mp4 for writing.
TranscodeFails ==
    /\ Raises("v094_to_v0913")
    /\ files' = [files EXCEPT !.audio_mp4 = TRUE]
    /\ UNCHANGED <<meta, touched>>

TranscodeSucceeds(next) ==
    /\ files' = [files EXCEPT !.audio_mp4 = TRUE]
    /\ touched' = touched \cup {"v094_to_v0913"}
    /\ meta' = _update_info_version_to(VStr(TRUE, <<0, 9, 13>>))
    /\ Returns("v094_to_v0913", next)

\* Variant of update_recording_v094_to_v0913 that makes one attempt and
\* persists the version before the transcode, outside the try.
EarlyStamp_update_recording_v094_to_v0913(next) ==
    IF ~files.audio_wav
    THEN /\ meta' = _update_info_version_to(VStr(TRUE, <<0, 9, 13>>))
         /\ Returns("v094_to_v0913", next)
         /\ UNCHANGED <<files, touched, transcodes>>
    ELSE \E first \in TranscodeOutcomes :
           /\ transcodes' = transcodes \o <<first>>
           /\ IF first = "ok"
              THEN TranscodeSucceeds(next)
              ELSE /\ Raises("v094_to_v0913")
                   /\ meta' = _update_info_version_to(VStr(TRUE, <<0, 9, 13>>))
                   /\ UNCHANGED <<files, touched>>

\* update_recording_v094_to_v0913 (lines 460-536): without audio.wav (and its
\* timestamps) only the version is persisted.  With it the audio is
\* transcoded; on AVError 22 the step closes the output container and calls
\* itself once more with retry_on_averror=False; any other error, or an error
\* of the retry, is re-raised.  The version is persisted after the transcode, inside the try.
update_recording_v094_to_v0913(next) ==
    IF ~files.audio_wav
    THEN /\ meta' = _update_info_version_to(VStr(TRUE, <<0, 9, 13>>))
         /\ Returns("v094_to_v0913", next)
         /\ UNCHANGED <<files, touched, transcodes>>
    ELSE \E first \in TranscodeOutcomes :
           CASE first = "ok" ->
                  /\ TranscodeSucceeds(next)
                  /\ transcodes' = transcodes \o <<first>>
             [] first = "error" ->
                  /\ TranscodeFails
                  /\ transcodes' = transcodes \o <<first>>
             [] first = "averr22_open" ->
                  /\ OpenFails
                  /\ transcodes' = transcodes \o <<first>>
             [] first = "averr22" ->
                  \E retry \in TranscodeOutcomes :
                     /\ CASE retry = "ok" -> TranscodeSucceeds(next)
                          [] retry = "averr22_open" -> OpenFails
                          [] OTHER -> TranscodeFails
                     /\ transcodes' = transcodes \o <<first, retry>>

\* Variant of update_recording_v0913_to_v0915 that persists its version as
\* its first statement, before it loads pupil_data.
EarlyBump_update_recording_v0913_to_v0915(next) ==
    /\ meta' = _update_info_version_to(VStr(TRUE, <<0, 9, 15>>))
    /\ IF ~files.pupil_data
       THEN /\ Raises("v0913_to_v0915")
            /\ UNCHANGED <<files, touched>>
       ELSE /\ touched' = touched \cup {"v0913_to_v0915"}
            /\ Returns("v0913_to_v0915", next)
            /\ UNCHANGED files

\* update_recording_v0913_to_v0915 (lines 539-564): fm.load_object(pupil_data) raises
\* when the file is missing; otherwise a notifications entry is added and the camera calibration upgraded (its IOError is caught),
\* the object is saved and the version is persisted as the last statement.
update_recording_v0913_to_v0915(next) ==
    IF ~files.pupil_data
    THEN /\ Raises("v0913_to_v0915")
         /\ UNCHANGED <<meta, files, touched>>
    ELSE /\ touched' = touched \cup {"v0913_to_v0915"}
         /\ meta' = _update_info_version_to(VStr(TRUE, <<0, 9, 15>>))
         /\ Returns("v0913_to_v0915", next)
         /\ UNCHANGED files

\* update_recording_v0915_v13 (lines 567-602): renames unconverted Pupil Cam2
\* videos, then persists its version.
update_recording_v0915_v13(next) ==
    /\ touched' = touched \cup {"v0915_v13"}
    /\ meta' = _update_info_version_to(VStr(TRUE, <<1, 3>>))
    /\ Returns("v0915_v13", next)
    /\ UNCHANGED files

\* Variant of update_recording_v13_v14 that persists the version of the step
\* before it, "v1.3".
WrongTarget_update_recording_v13_v14(next) ==
    /\ meta' = _update_info_version_to(VStr(TRUE, <<1, 3>>))
    /\ Returns("v13_v14", next)
    /\ UNCHANGED <<files, touched>>

\* update_recording_v13_v14 (lines 605-607): only persists its version.
update_recording_v13_v14(next) ==
    /\ meta' = _update_info_version_to(VStr(TRUE, <<1, 4>>))
    /\ Returns("v13_v14", next)
    /\ UNCHANGED <<files, touched>>

\* update_recording_v14_v18 (lines 610-634): the legacy loader reads
\* pupil_data and each topic is rewritten as a pldata file; the version is
\* persisted after the loader closes.
update_recording_v14_v18(next) ==
    IF ~files.pupil_data
    THEN /\ Raises("v14_v18")
         /\ UNCHANGED <<meta, files, touched>>
    ELSE /\ touched' = touched \cup {"v14_v18"}
         /\ meta' = _update_info_version_to(VStr(TRUE, <<1, 8>>))
         /\ Returns("v14_v18", next)
         /\ UNCHANGED files

\* Variant of update_recording_v18_v19 that transforms the data and leaves
\* the persisted version where the step before it put it.
Unstamped_update_recording_v18_v19(next) ==
    /\ touched' = touched \cup {"v18_v19"}
    /\ Returns("v18_v19", next)
    /\ UNCHANGED <<meta, files>>

\* update_recording_v18_v19 (lines 637-664): copies cached and recorded
\* annotations, then persists its version.
update_recording_v18_v19(next) ==
    /\ touched' = touched \cup {"v18_v19"}
    /\ meta' = _update_info_version_to(VStr(TRUE, <<1, 9>>))
    /\ Returns("v18_v19", next)
    /\ UNCHANGED files

\* check_for_worldless_recording (lines 667-700): with a world video nothing
\* is done; without one the eye timestamps must give a valid range (else the
\* assert of line 690 raises) and an artificial world is written.
check_for_worldless_recording(next) ==
    IF files.world_video
    THEN /\ Returns("worldless", next)
         /\ UNCHANGED <<meta, files, touched>>
    ELSE IF ~files.eye_ts
         THEN /\ Raises("worldless")
              /\ UNCHANGED <<meta, files, touched>>
         ELSE /\ touched' = touched \cup {"worldless"}
              /\ Returns("worldless", next)
              /\ UNCHANGED <<meta, files>>

\* update_recording_bytes_to_unicode (lines 703-736): converts the objects
\* that still hold bytes (none once converted) and rewrites info.csv with the
\* key/values it has just read; the load errors are caught.
update_recording_bytes_to_unicode(next) ==
    /\ \E converts \in BOOLEAN :
          /\ converts => "bytes_to_unicode" \notin touched
          /\ touched' = IF converts THEN touched \cup {"bytes_to_unicode"}
                                   ELSE touched
    /\ meta' = update_meta_info(load_meta_info)
    /\ Returns("bytes_to_unicode", next)
    /\ UNCHANGED files

\* update_recording_v073_to_v074 (lines 739-763) and
\* update_recording_v05_to_v074 (lines 766-775): load pupil_data (raising when
\* it is missing), rewrite it; no version is persisted.
update_recording_v073_to_v074(next) ==
    IF ~files.pupil_data
    THEN /\ Raises("v073_to_v074")
         /\ UNCHANGED <<meta, files, touched>>
    ELSE /\ touched' = touched \cup {"v073_to_v074"}
         /\ Returns("v073_to_v074", next)
         /\ UNCHANGED <<meta, files>>

update_recording_v05_to_v074(next) ==
    IF ~files.pupil_data
    THEN /\ Raises("v05_to_v074")
         /\ UNCHANGED <<meta, files, touched>>
    ELSE /\ touched' = touched \cup {"v05_to_v074"}
         /\ Returns("v05_to_v074", next)
         /\ UNCHANGED <<meta, files>>

\* update_recording_v04_to_v074 (lines 778-816) and
\* update_recording_v03_to_v074 (lines 819-856): np.load the legacy arrays
\* (raising when they are missing) and save a new pupil_data; no version is
\* persisted.
update_recording_v04_to_v074(next) ==
    IF ~files.legacy_npy
    THEN /\ Raises("v04_to_v074")
         /\ UNCHANGED <<meta, files, touched>>
    ELSE /\ files' = [files EXCEPT !.pupil_data = TRUE]
         /\ touched' = touched \cup {"v04_to_v074"}
         /\ Returns("v04_to_v074", next)
         /\ UNCHANGED meta

update_recording_v03_to_v074(next) ==
    IF ~files.legacy_npy
    THEN /\ Raises("v03_to_v074")
         /\ UNCHANGED <<meta, files, touched>>
    ELSE /\ files' = [files EXCEPT !.pupil_data = TRUE]
         /\ touched' = touched \cup {"v03_to_v074"}
         /\ Returns("v03_to_v074", next)
         /\ UNCHANGED meta

\* ------------------------------------------- update_recording_to_recent
\* What a run keeps for its whole duration.
RunFrame ==
    UNCHANGED <<rec_version, meta0, prev, runs>> /\ UNCHANGED <<bisVars, restVars>>

\* convert_pupil_mobile_recording_to_v094 (lines 298-366): renames the media
\* and time files and creates pupil_data when it does not exist.
convert_pupil_mobile_recording_to_v094(fs) == [fs EXCEPT !.pupil_data = TRUE]

\* Variant of the condition that looks at the capture software only.
AnyMobile_IsUnconvertedMobile(meta_info) ==
    (IF CSW \in DOMAIN meta_info THEN meta_info[CSW] ELSE "Pupil Capture")
       = "Pupil Mobile"

\* Lines 209-212: the condition of the Pupil Mobile conversion.
IsUnconvertedMobile(meta_info) ==
    /\ (IF CSW \in DOMAIN meta_info THEN meta_info[CSW] ELSE "Pupil Capture")
          = "Pupil Mobile"
    /\ DFV \notin DOMAIN meta_info

\* Lines 204-218: a run starts.  The metadata is loaded and written back; an
\* unconverted Pupil Mobile recording is converted and stamped v0.9.4; then
\* rec_version is read, once, from the dict.
Begin ==
    /\ pc \in {"idle", "done", "raised"}
    /\ runs < MaxRuns
    /\ LET meta_info == load_meta_info
           mobile == IsUnconvertedMobile(meta_info)
           stamped == IF mobile
                      THEN SetVersion(meta_info, VStr(TRUE, <<0, 9, 4>>))
                      ELSE meta_info
       IN /\ meta' = update_meta_info(stamped)
          /\ files' = IF mobile
                      THEN convert_pupil_mobile_recording_to_v094(files)
                      ELSE files
          /\ touched' = IF mobile THEN touched \cup {"mobile"} ELSE touched
          /\ called' = IF mobile THEN <<"mobile">> ELSE <<>>
          /\ completed' = IF mobile THEN <<"mobile">> ELSE <<>>
          /\ rec_version' = read_rec_version(stamped)
    /\ pc' = "bytes"
    /\ tested' = {}
    /\ failed' = "none"
    /\ meta0' = meta
    /\ prev' = [completed |-> completed, failed |-> failed]
    /\ runs' = runs + 1
    /\ transcodes' = <<>>
    /\ UNCHANGED <<bisVars, restVars>>

\* Lines 220-222: python2 recordings (rec_version <= 0.8.7) are converted.
BytesToUnicode ==
    /\ pc = "bytes"
    /\ IF VLeq(rec_version, VersionFormat(<<0, 8, 7>>))
       THEN update_recording_bytes_to_unicode("legacy")
       ELSE Skip("legacy")
    /\ UNCHANGED tested
    /\ RunFrame
    /\ UNCHANGED transcodes

\* Variants of the too-old branch: one that logs and goes on with the
\* incremental updates, one that logs and returns normally (logger.error
\* followed by the return of line 236).
Continue_TooOld == Skip("g082")

Return_TooOld ==
    /\ pc' = "done"
    /\ UNCHANGED <<meta, files, touched, called, completed, failed>>

\* Lines 234-236: logger.Error is not a method of logging.Logger (the method
\* is logger.error), so the call raises AttributeError and the return of
\* line 236 is never reached: the run ends with an exception.
TooOld ==
    /\ pc' = "raised"
    /\ failed' = "too_old"
    /\ UNCHANGED <<meta, files, touched, called, completed>>

\* Variant of the legacy dispatch whose chain tests the lower bounds from the
\* lowest up, so that every supported recording below 0.7.4 gets the 0.3
\* conversion.
LowestFirst_LegacyDispatch ==
    /\ pc = "legacy"
    /\ IF ~VLess(rec_version, VersionFormat(<<0, 7, 4>>))
       THEN Skip("g082")
       ELSE IF ~VLess(rec_version, VersionFormat(<<0, 3>>))
       THEN update_recording_v03_to_v074("g082")
       ELSE TooOld
    /\ UNCHANGED tested
    /\ RunFrame
    /\ UNCHANGED transcodes

\* Lines 224-236: the conversion to the reference format v0.7.4, chosen by an
\* if/elif chain on lower bounds.
LegacyDispatch ==
    /\ pc = "legacy"
    /\ IF ~VLess(rec_version, VersionFormat(<<0, 7, 4>>))
       THEN Skip("g082")
       ELSE IF ~VLess(rec_version, VersionFormat(<<0, 7, 3>>))
       THEN update_recording_v073_to_v074("g082")
       ELSE IF ~VLess(rec_version, VersionFormat(<<0, 5>>))
       THEN update_recording_v05_to_v074("g082")
       ELSE IF ~VLess(rec_version, VersionFormat(<<0, 4>>))
       THEN update_recording_v04_to_v074("g082")
       ELSE IF ~VLess(rec_version, VersionFormat(<<0, 3>>))
       THEN update_recording_v03_to_v074("g082")
       ELSE TooOld
    /\ UNCHANGED tested
    /\ RunFrame
    /\ UNCHANGED transcodes

\* Lines 239-240.
Gate_v074_to_v082 ==
    /\ pc = "g082"
    /\ tested' = tested \cup {"v074_to_v082"}
    /\ IF VLess(rec_version, VersionFormat(<<0, 8, 2>>))
       THEN update_recording_v074_to_v082("g083")
       ELSE Skip("g083")
    /\ RunFrame
    /\ UNCHANGED transcodes

\* Variant of the 0.8.3 gate written as an elif of the 0.8.2 gate: the step
\* is not called when the earlier step applied.
Elif_Gate_v082_to_v083 ==
    /\ pc = "g083"
    /\ tested' = tested \cup {"v082_to_v083"}
    /\ IF /\ ~VLess(rec_version, VersionFormat(<<0, 8, 2>>))
          /\ VLess(rec_version, VersionFormat(<<0, 8, 3>>))
       THEN update_recording_v082_to_v083("g086")
       ELSE Skip("g086")
    /\ RunFrame
    /\ UNCHANGED transcodes

\* Lines 241-242.
Gate_v082_to_v083 ==
    /\ pc = "g083"
    /\ tested' = tested \cup {"v082_to_v083"}
    /\ IF VLess(rec_version, VersionFormat(<<0, 8, 3>>))
       THEN update_recording_v082_to_v083("g086")
       ELSE Skip("g086")
    /\ RunFrame
    /\ UNCHANGED transcodes

\* Lines 243-244.
Gate_v083_to_v086 ==
    /\ pc = "g086"
    /\ tested' = tested \cup {"v083_to_v086"}
    /\ IF VLess(rec_version, VersionFormat(<<0, 8, 6>>))
       THEN update_recording_v083_to_v086("g087")
       ELSE Skip("g087")
    /\ RunFrame
    /\ UNCHANGED transcodes

\* Lines 245-246.
Gate_v086_to_v087 ==
    /\ pc = "g087"
    /\ tested' = tested \cup {"v086_to_v087"}
    /\ IF VLess(rec_version, VersionFormat(<<0, 8, 7>>))
       THEN update_recording_v086_to_v087("g091")
       ELSE Skip("g091")
    /\ RunFrame
    /\ UNCHANGED transcodes

\* Variant of the 0.9.1 gate that compares with <= instead of <.
Leq_Gate_v087_to_v091 ==
    /\ pc = "g091"
    /\ tested' = tested \cup {"v087_to_v091"}
    /\ IF VLeq(rec_version, VersionFormat(<<0, 9, 1>>))
       THEN update_recording_v087_to_v091("g093")
       ELSE Skip("g093")
    /\ RunFrame
    /\ UNCHANGED transcodes

\* Lines 247-248.
Gate_v087_to_v091 ==
    /\ pc = "g091"
    /\ tested' = tested \cup {"v087_to_v091"}
    /\ IF VLess(rec_version, VersionFormat(<<0, 9, 1>>))
       THEN update_recording_v087_to_v091("g093")
       ELSE Skip("g093")
    /\ RunFrame
    /\ UNCHANGED transcodes

\* Lines 249-250.
Gate_v091_to_v093 ==
    /\ pc = "g093"
    /\ tested' = tested \cup {"v091_to_v093"}
    /\ IF VLess(rec_version, VersionFormat(<<0, 9, 3>>))
       THEN update_recording_v091_to_v093("g094")
       ELSE Skip("g094")
    /\ RunFrame
    /\ UNCHANGED transcodes

\* Lines 251-252.
Gate_v093_to_v094 ==
    /\ pc = "g094"
    /\ tested' = tested \cup {"v093_to_v094"}
    /\ IF VLess(rec_version, VersionFormat(<<0, 9, 4>>))
       THEN update_recording_v093_to_v094("g0913")
       ELSE Skip("g0913")
    /\ RunFrame
    /\ UNCHANGED transcodes

\* Lines 253-254.
Gate_v094_to_v0913 ==
    /\ pc = "g0913"
    /\ tested' = tested \cup {"v094_to_v0913"}
    /\ IF VLess(rec_version, VersionFormat(<<0, 9, 13>>))
       THEN update_recording_v094_to_v0913("g0915")
       ELSE Skip("g0915") /\ UNCHANGED transcodes
    /\ RunFrame

\* Lines 255-256.
Gate_v0913_to_v0915 ==
    /\ pc = "g0915"
    /\ tested' = tested \cup {"v0913_to_v0915"}
    /\ IF VLess(rec_version, VersionFormat(<<0, 9, 15>>))
       THEN update_recording_v0913_to_v0915("g13")
       ELSE Skip("g13")
    /\ RunFrame
    /\ UNCHANGED transcodes

\* Lines 257-258.
Gate_v0915_v13 ==
    /\ pc = "g13"
    /\ tested' = tested \cup {"v0915_v13"}
    /\ IF VLess(rec_version, VersionFormat(<<1, 3>>))
       THEN update_recording_v0915_v13("g14")
       ELSE Skip("g14")
    /\ RunFrame
    /\ UNCHANGED transcodes

\* Lines 259-260.
Gate_v13_v14 ==
    /\ pc = "g14"
    /\ tested' = tested \cup {"v13_v14"}
    /\ IF VLess(rec_version, VersionFormat(<<1, 4>>))
       THEN update_recording_v13_v14("worldless")
       ELSE Skip("worldless")
    /\ RunFrame
    /\ UNCHANGED transcodes

\* Variant of the worldless check placed under the gate of the 1.4 step.
Gated_WorldlessCheck ==
    /\ pc = "worldless"
    /\ IF VLess(rec_version, VersionFormat(<<1, 4>>))
       THEN check_for_worldless_recording("g18")
       ELSE Skip("g18")
    /\ UNCHANGED tested
    /\ RunFrame
    /\ UNCHANGED transcodes

\* Lines 262-263: "Do this independent of rec_version".
WorldlessCheck ==
    /\ pc = "worldless"
    /\ check_for_worldless_recording("g18")
    /\ UNCHANGED tested
    /\ RunFrame
    /\ UNCHANGED transcodes

\* Lines 265-266.
Gate_v14_v18 ==
    /\ pc = "g18"
    /\ tested' = tested \cup {"v14_v18"}
    /\ IF VLess(rec_version, VersionFormat(<<1, 8>>))
       THEN update_recording_v14_v18("g19")
       ELSE Skip("g19")
    /\ RunFrame
    /\ UNCHANGED transcodes

\* Variant of the 1.9 gate that compares with <= instead of <.
Leq_Gate_v18_v19 ==
    /\ pc = "g19"
    /\ tested' = tested \cup {"v18_v19"}
    /\ IF VLeq(rec_version, VersionFormat(<<1, 9>>))
       THEN update_recording_v18_v19("done")
       ELSE Skip("done")
    /\ RunFrame
    /\ UNCHANGED transcodes

\* Lines 267-268.
Gate_v18_v19 ==
    /\ pc = "g19"
    /\ tested' = tested \cup {"v18_v19"}
    /\ IF VLess(rec_version, VersionFormat(<<1, 9>>))
       THEN update_recording_v18_v19("done")
       ELSE Skip("done")
    /\ RunFrame
    /\ UNCHANGED transcodes

\* ------------------------------------------------------- the specification
\* The version strings a recording may declare.
DeclaredParts ==
    {<<a, b>> : a \in 0..MaxMajor, b \in 0..MaxMinor}
    \cup {<<a, b, c>> : a \in 0..MaxMajor, b \in 0..MaxMinor, c \in 0..MaxPatch}

\* The metadata of a recording before its first run: it declares a version,
\* or it is a Pupil Mobile recording that was never converted.
InitialMetas ==
    {[k \in {DFV, CSW, RNAME} |->
         CASE k = DFV -> VStr(FALSE, p)
           [] k = CSW -> sw
           [] k = RNAME -> "rec"] :
       p \in DeclaredParts, sw \in {"Pupil Capture", "Pupil Mobile"}}
    \cup {[k \in {DFV, RNAME} |->
         IF k = DFV THEN VStr(FALSE, p) ELSE "rec"] : p \in DeclaredParts}
    \cup {[k \in {CSW, RNAME} |->
         IF k = CSW THEN "Pupil Mobile" ELSE "rec"]}

InitialFiles ==
    {f \in [pupil_data : BOOLEAN, legacy_npy : BOOLEAN, audio_wav : BOOLEAN,
            audio_mp4 : BOOLEAN, world_video : BOOLEAN, eye_ts : BOOLEAN] :
        ~f.audio_mp4}

MigInit ==
    /\ meta \in InitialMetas
    /\ files \in InitialFiles
    /\ touched = {}
    /\ pc = "idle"
    /\ rec_version = <<>>
    /\ tested = {}
    /\ called = <<>>
    /\ completed = <<>>
    /\ failed = "none"
    /\ meta0 = meta
    /\ prev = [completed |-> <<>>, failed |-> "none"]
    /\ runs = 0
    /\ transcodes = <<>>
    /\ bisector = NoIndex
    /\ supplied = NoArguments
    /\ outcome = NoCall
    /\ corr = NoCorrelation
    /\ batch = NoBatch
    /\ pdata = NoEventData
    /\ gui = NoGui

MigNext ==
    \/ Begin
    \/ BytesToUnicode
    \/ LegacyDispatch
    \/ Gate_v074_to_v082
    \/ Gate_v082_to_v083
    \/ Gate_v083_to_v086
    \/ Gate_v086_to_v087
    \/ Gate_v087_to_v091
    \/ Gate_v091_to_v093
    \/ Gate_v093_to_v094
    \/ Gate_v094_to_v0913
    \/ Gate_v0913_to_v0915
    \/ Gate_v0915_v13
    \/ Gate_v13_v14
    \/ WorldlessCheck
    \/ Gate_v14_v18
    \/ Gate_v18_v19

SpecMigration == MigInit /\ [][MigNext]_vars

\* ------------------------------------------- the steps a version selects
\* Lines 238-268 read as a function of rec_version: one `if rec_version <
\* threshold` per step, in source order.
Gated(v, threshold, step) ==
    IF VLess(v, VersionFormat(threshold)) THEN <<step>> ELSE <<>>

\* Variant of IncrementalOf whose 0.8.3 gate is an elif of the 0.8.2 gate.
Elif_IncrementalOf(v) ==
    Gated(v, <<0, 8, 2>>, "v074_to_v082")
    \o (IF VLess(v, VersionFormat(<<0, 8, 2>>))
        THEN <<>> ELSE Gated(v, <<0, 8, 3>>, "v082_to_v083"))
    \o Gated(v, <<0, 8, 6>>, "v083_to_v086")
    \o Gated(v, <<0, 8, 7>>, "v086_to_v087")
    \o Gated(v, <<0, 9, 1>>, "v087_to_v091")
    \o Gated(v, <<0, 9, 3>>, "v091_to_v093")
    \o Gated(v, <<0, 9, 4>>, "v093_to_v094")
    \o Gated(v, <<0, 9, 13>>, "v094_to_v0913")
    \o Gated(v, <<0, 9, 15>>, "v0913_to_v0915")
    \o Gated(v, <<1, 3>>, "v0915_v13")
    \o Gated(v, <<1, 4>>, "v13_v14")
    \o Gated(v, <<1, 8>>, "v14_v18")
    \o Gated(v, <<1, 9>>, "v18_v19")

IncrementalOf(v) ==
    Gated(v, <<0, 8, 2>>, "v074_to_v082")
    \o Gated(v, <<0, 8, 3>>, "v082_to_v083")
    \o Gated(v, <<0, 8, 6>>, "v083_to_v086")
    \o Gated(v, <<0, 8, 7>>, "v086_to_v087")
    \o Gated(v, <<0, 9, 1>>, "v087_to_v091")
    \o Gated(v, <<0, 9, 3>>, "v091_to_v093")
    \o Gated(v, <<0, 9, 4>>, "v093_to_v094")
    \o Gated(v, <<0, 9, 13>>, "v094_to_v0913")
    \o Gated(v, <<0, 9, 15>>, "v0913_to_v0915")
    \o Gated(v, <<1, 3>>, "v0915_v13")
    \o Gated(v, <<1, 4>>, "v13_v14")
    \o Gated(v, <<1, 8>>, "v14_v18")
    \o Gated(v, <<1, 9>>, "v18_v19")

\* Lines 224-236 read as a function of rec_version: the conversion the
\* if/elif chain selects, none at or above 0.7.4; below 0.3 the run ends
\* there.
LegacyOf(v) ==
    IF ~VLess(v, VersionFormat(<<0, 7, 4>>)) THEN <<>>
    ELSE IF ~VLess(v, VersionFormat(<<0, 7, 3>>)) THEN <<"v073_to_v074">>
    ELSE IF ~VLess(v, VersionFormat(<<0, 5>>)) THEN <<"v05_to_v074">>
    ELSE IF ~VLess(v, VersionFormat(<<0, 4>>)) THEN <<"v04_to_v074">>
    ELSE IF ~VLess(v, VersionFormat(<<0, 3>>)) THEN <<"v03_to_v074">>
    ELSE <<>>

\* The conversion and threshold steps a run from version v executes when no
\* step fails.
StepsOfRun(v) ==
    IF VLess(v, VersionFormat(<<0, 3>>)) THEN <<>>
    ELSE LegacyOf(v) \o IncrementalOf(v)

\* The versions a recording may declare, as triples.
VersionGrid == {VersionFormat(p) : p \in DeclaredParts}

\* StepsOfRun and IncrementalOf tabulated over the declared versions.
StepsTable == [v \in VersionGrid |-> StepsOfRun(v)]

IncrementalTable == [v \in VersionGrid |-> IncrementalOf(v)]

\* =============================================== the timestamp indexes
\* Bounds of the index model: entries supplied at construction, the largest
\* timestamp stored, and insertions into one index.
MaxLen == 2
MaxTs == 3
MaxInserts == 1

\* Timestamps stored in an index, and timestamps asked for (one below and one
\* above every stored one).
StoredTs == 1..MaxTs
AskedTs == 0..(MaxTs + 1)

\* The data supplied at construction are told apart by their position in the
\* argument; an inserted datum is numbered after them.
DataOfLen(n) == [i \in 1..n |-> i]
InsertedDatum(k) == MaxLen + k

\* seq[idc]: numpy indexing of an array by an index array (here 1-based).
Take(seq, idc) == [i \in 1..Len(idc) |-> seq[idc[i]]]

\* np.argsort(ts) (line 63): an index array that sorts ts ascending.  The
\* default sort kind is not stable, so equal timestamps come in any order.
argsort(ts) ==
    {p \in [1..Len(ts) -> 1..Len(ts)] :
        /\ \A i, j \in 1..Len(ts) : i # j => p[i] # p[j]
        /\ \A i \in 1..(Len(ts) - 1) : ts[p[i]] <= ts[p[i + 1]]}

\* np.searchsorted(a, v), side='left': numpy's binary search, which on an
\* ascending array finds the first index whose element is >= v.  Indices are
\* 0-based as in the source; lo and hi are the bounds of the search.
RECURSIVE binsearch_left(_, _, _, _)
binsearch_left(a, v, lo, hi) ==
    IF lo < hi
    THEN LET mid == lo + ((hi - lo) \div 2)
         IN IF a[mid + 1] < v
            THEN binsearch_left(a, v, mid + 1, hi)
            ELSE binsearch_left(a, v, lo, mid)
    ELSE lo

searchsorted(a, v) == binsearch_left(a, v, 0, Len(a))

\* list[start:stop] for 0 <= start: the elements at the 0-based indices
\* start .. stop-1 that exist.
Slice(list, start, stop) ==
    LET last == IF stop < Len(list) THEN stop ELSE Len(list)
    IN IF last <= start THEN <<>>
       ELSE [i \in 1..(last - start) |-> list[start + i]]

\* np.insert(arr, idx, x) and list.insert(idx, x), idx 0-based.
InsertAt(seq, idx, x) ==
    [i \in 1..(Len(seq) + 1) |->
        IF i <= idx THEN seq[i] ELSE IF i = idx + 1 THEN x ELSE seq[i - 1]]

Constructed == bisector.kind # "none"

Call(op, args, raised, value) ==
    [op |-> op, args |-> args, raised |-> raised, value |-> value]

BisFrame == UNCHANGED <<migVars, restVars>>


\* ------------------------------------------------------------- Bisector
\* Variant of the length check that lets data longer than data_ts through.
Lenient_Bisector_raises(data, data_ts) == Len(data) < Len(data_ts)

\* Lines 47-51: the constructor raises ValueError when the lengths differ.
Bisector_raises(data, data_ts) == Len(data) # Len(data_ts)

\* Lines 52-65: the fields of the constructed index; empty data gives the
\* empty index, otherwise timestamps and data are reordered by the argsort
\* of the timestamps.
Bisector_new(kind, data, data_ts) ==
    IF data = <<>>
    THEN {[kind |-> kind, data |-> <<>>, data_ts |-> <<>>, stop_ts |-> <<>>,
           sorted_idc |-> <<>>]}
    ELSE {[kind |-> kind, data |-> Take(data, idc),
           data_ts |-> Take(data_ts, idc), stop_ts |-> <<>>,
           sorted_idc |-> idc] : idc \in argsort(data_ts)}

\* Bisector(data, data_ts) and Mutable_Bisector(data, data_ts) (lines 46-65,
\* 116): the subclass has no constructor of its own.
Bisector_init ==
    /\ ~Constructed
    /\ outcome.op = "none"
    /\ \E kind \in {"Bisector", "Mutable_Bisector"}, n, m \in 0..MaxLen :
          \E data_ts \in [1..m -> StoredTs] :
             LET data == DataOfLen(n)
             IN /\ supplied' = [NoArguments EXCEPT !.data = data,
                                                   !.data_ts = data_ts]
                /\ IF Bisector_raises(data, data_ts)
                   THEN /\ outcome' = Call("init", <<>>, "ValueError", <<>>)
                        /\ UNCHANGED bisector
                   ELSE /\ bisector' \in Bisector_new(kind, data, data_ts)
                        /\ outcome' = Call("init", <<>>, "none", <<>>)
    /\ BisFrame

\* Variant of Mutable_Bisector.insert that puts the timestamp in its sorted
\* place and appends the datum at the end of the data list.
Appending_insert ==
    /\ bisector.kind = "Mutable_Bisector"
    /\ Len(supplied.inserted) < MaxInserts
    /\ \E timestamp \in StoredTs :
          LET datum == InsertedDatum(Len(supplied.inserted) + 1)
              insert_idx == searchsorted(bisector.data_ts, timestamp)
          IN /\ bisector' =
                   [bisector EXCEPT
                      !.data_ts = InsertAt(@, insert_idx, timestamp),
                      !.data = Append(@, datum)]
             /\ supplied' =
                   [supplied EXCEPT !.inserted = Append(@, <<timestamp, datum>>)]
             /\ outcome' = Call("insert", <<timestamp, datum>>, "none", <<>>)
    /\ BisFrame

\* Variant of Mutable_Bisector.insert that searches from the right
\* (np.searchsorted with side="right"): the new pair goes after the pairs
\* with an equal timestamp.
Right_insert ==
    /\ bisector.kind = "Mutable_Bisector"
    /\ Len(supplied.inserted) < MaxInserts
    /\ \E timestamp \in StoredTs :
          LET datum == InsertedDatum(Len(supplied.inserted) + 1)
              insert_idx == searchsorted(bisector.data_ts, timestamp + 1)
          IN /\ bisector' =
                   [bisector EXCEPT
                      !.data_ts = InsertAt(@, insert_idx, timestamp),
                      !.data = InsertAt(@, insert_idx, datum)]
             /\ supplied' =
                   [supplied EXCEPT !.inserted = Append(@, <<timestamp, datum>>)]
             /\ outcome' = Call("insert", <<timestamp, datum>>, "none", <<>>)
    /\ BisFrame

\* Mutable_Bisector.insert (lines 117-120).
insert ==
    /\ bisector.kind = "Mutable_Bisector"
    /\ Len(supplied.inserted) < MaxInserts
    /\ \E timestamp \in StoredTs :
          LET datum == InsertedDatum(Len(supplied.inserted) + 1)
              insert_idx == searchsorted(bisector.data_ts, timestamp)
          IN /\ bisector' =
                   [bisector EXCEPT
                      !.data_ts = InsertAt(@, insert_idx, timestamp),
                      !.data = InsertAt(@, insert_idx, datum)]
             /\ supplied' =
                   [supplied EXCEPT !.inserted = Append(@, <<timestamp, datum>>)]
             /\ outcome' = Call("insert", <<timestamp, datum>>, "none", <<>>)
    /\ BisFrame

\* Variant of by_ts without the comparison of lines 79-81: it returns the
\* datum the search lands on.
Nearest_by_ts ==
    /\ Constructed
    /\ \E ts \in AskedTs :
          LET found_index == searchsorted(bisector.data_ts, ts)
          IN outcome' =
                IF found_index >= Len(bisector.data)
                THEN Call("by_ts", <<ts>>, "ValueError", <<>>)
                ELSE Call("by_ts", <<ts>>, "none",
                          <<bisector.data[found_index + 1]>>)
    /\ UNCHANGED <<bisector, supplied>>
    /\ BisFrame

\* Bisector.by_ts (lines 67-83): the IndexError of a search that lands past
\* the end becomes ValueError; a landing on another timestamp raises
\* ValueError too.
by_ts ==
    /\ Constructed
    /\ \E ts \in AskedTs :
          LET found_index == searchsorted(bisector.data_ts, ts)
          IN outcome' =
                IF found_index >= Len(bisector.data)
                THEN Call("by_ts", <<ts>>, "ValueError", <<>>)
                ELSE IF bisector.data_ts[found_index + 1] # ts
                THEN Call("by_ts", <<ts>>, "ValueError", <<>>)
                ELSE Call("by_ts", <<ts>>, "none",
                          <<bisector.data[found_index + 1]>>)
    /\ UNCHANGED <<bisector, supplied>>
    /\ BisFrame

\* Variant of _start_stop_idc_for_window whose window includes its right
\* end: the stop index is the first index with a timestamp above it.
Closed_start_stop_idc_for_window(ts_window) ==
    <<searchsorted(bisector.data_ts, ts_window[1]),
      searchsorted(bisector.data_ts, ts_window[2] + 1)>>

\* Bisector._start_stop_idc_for_window (lines 89-90).
_start_stop_idc_for_window(ts_window) ==
    <<searchsorted(bisector.data_ts, ts_window[1]),
      searchsorted(bisector.data_ts, ts_window[2])>>

\* Affiliator._start_stop_idc_for_window (lines 131-134): the start index is
\* searched in the stop timestamps, the stop index in the start timestamps.
Affiliator_start_stop_idc_for_window(ts_window) ==
    <<searchsorted(bisector.stop_ts, ts_window[1]),
      searchsorted(bisector.data_ts, ts_window[2])>>

\* by_ts_window (lines 85-87); the index pair comes from the method of the
\* object's class.
by_ts_window ==
    /\ Constructed
    /\ \E a, b \in AskedTs :
          LET ts_window == <<a, b>>
              idc == IF bisector.kind = "Affiliator"
                     THEN Affiliator_start_stop_idc_for_window(ts_window)
                     ELSE _start_stop_idc_for_window(ts_window)
          IN outcome' = Call("by_ts_window", ts_window, "none",
                             Slice(bisector.data, idc[1], idc[2]))
    /\ UNCHANGED <<bisector, supplied>>
    /\ BisFrame

\* ----------------------------------------------------------- Affiliator
\* The stop sequences the model supplies with data of length n and starts
\* start_ts: one entry fewer, as many, or one more than the data, each stop
\* not before its start.  When data and starts differ in length the
\* constructor raises before it looks at the stops.
StopsFor(n, start_ts) ==
    IF Len(start_ts) # n THEN {<<>>}
    ELSE UNION {
           {stop_ts \in [1..k -> StoredTs] :
               \A i \in 1..k : i <= n => start_ts[i] <= stop_ts[i]} :
           k \in {n - 1, n, n + 1} \cap 0..MaxLen}

\* Variant of the constructor that leaves the stops in the order supplied.
Unpermuted_Affiliator_new(base, stop_ts) ==
    [base EXCEPT !.stop_ts = SubSeq(stop_ts, 1, Len(base.sorted_idc))]

\* Lines 128-129: the stops are reordered by the index array of the starts.
Affiliator_new(base, stop_ts) ==
    [base EXCEPT !.stop_ts = Take(stop_ts, base.sorted_idc)]

\* Affiliator(data, start_ts, stop_ts) (lines 126-129): the Bisector
\* constructor on data and starts, then the stops.  Indexing the stops past
\* their end raises IndexError.
Affiliator_init ==
    /\ ~Constructed
    /\ outcome.op = "none"
    /\ \E n, m \in 0..MaxLen :
          \E start_ts \in [1..m -> StoredTs] :
             \E stop_ts \in StopsFor(n, start_ts) :
                LET data == DataOfLen(n)
                IN /\ supplied' = [NoArguments EXCEPT !.data = data,
                                                      !.data_ts = start_ts,
                                                      !.stop_ts = stop_ts]
                   /\ IF Bisector_raises(data, start_ts)
                      THEN /\ outcome' = Call("init", <<>>, "ValueError", <<>>)
                           /\ UNCHANGED bisector
                      ELSE \E base \in Bisector_new("Affiliator", data, start_ts) :
                              IF \E i \in DOMAIN base.sorted_idc :
                                    base.sorted_idc[i] > Len(stop_ts)
                              THEN /\ outcome' =
                                        Call("init", <<>>, "IndexError", <<>>)
                                   /\ UNCHANGED bisector
                              ELSE /\ bisector' = Affiliator_new(base, stop_ts)
                                   /\ outcome' = Call("init", <<>>, "none", <<>>)
    /\ BisFrame

\* ------------------------------------------- the index specification
\* No index yet; the migration variables stay at one value.
BisInit ==
    /\ bisector = NoIndex
    /\ supplied = NoArguments
    /\ outcome = NoCall
    /\ corr = NoCorrelation
    /\ batch = NoBatch
    /\ pdata = NoEventData
    /\ gui = NoGui
    /\ meta = [k \in {DFV, RNAME} |-> IF k = DFV THEN "v1.9" ELSE "rec"]
    /\ files = [pupil_data |-> TRUE, legacy_npy |-> FALSE, audio_wav |-> FALSE,
                audio_mp4 |-> FALSE, world_video |-> TRUE, eye_ts |-> TRUE]
    /\ touched = {}
    /\ pc = "idle"
    /\ rec_version = <<>>
    /\ tested = {}
    /\ called = <<>>
    /\ completed = <<>>
    /\ failed = "none"
    /\ meta0 = meta
    /\ prev = [completed |-> <<>>, failed |-> "none"]
    /\ runs = 0
    /\ transcodes = <<>>

BisNext ==
    \/ Bisector_init
    \/ Affiliator_init
    \/ insert
    \/ by_ts
    \/ by_ts_window

SpecBisector == BisInit /\ [][BisNext]_vars

\* ================================================================ claims
\* The plan as the specification states it: the threshold of each incremental
\* step, in ascending order, and the version each step brings a recording to.
PlanOrder ==
    <<"v074_to_v082", "v082_to_v083", "v083_to_v086", "v086_to_v087",
      "v087_to_v091", "v091_to_v093", "v093_to_v094", "v094_to_v0913",
      "v0913_to_v0915", "v0915_v13", "v13_v14", "v14_v18", "v18_v19">>

StepThreshold(s) ==
    CASE s = "v074_to_v082" -> <<0, 8, 2>>
      [] s = "v082_to_v083" -> <<0, 8, 3>>
      [] s = "v083_to_v086" -> <<0, 8, 6>>
      [] s = "v086_to_v087" -> <<0, 8, 7>>
      [] s = "v087_to_v091" -> <<0, 9, 1>>
      [] s = "v091_to_v093" -> <<0, 9, 3>>
      [] s = "v093_to_v094" -> <<0, 9, 4>>
      [] s = "v094_to_v0913" -> <<0, 9, 13>>
      [] s = "v0913_to_v0915" -> <<0, 9, 15>>
      [] s = "v0915_v13" -> <<1, 3, 0>>
      [] s = "v13_v14" -> <<1, 4, 0>>
      [] s = "v14_v18" -> <<1, 8, 0>>
      [] s = "v18_v19" -> <<1, 9, 0>>

\* The version a completed step stands for: its threshold for an incremental
\* step, 0.7.4 for a legacy conversion, 0.9.4 for the Pupil Mobile conversion.
StepTarget(s) ==
    CASE s \in IncrementalSteps -> StepThreshold(s)
      [] s \in LegacySteps -> <<0, 7, 4>>
      [] s = "mobile" -> <<0, 9, 4>>

OldestSupported == <<0, 3, 0>>

IsIncremental(s) == s \in IncrementalSteps
IsPlanStep(s) == s \in PlanSteps
IsVersionedStep(s) == s \in PlanSteps \cup {"mobile"}
Range(q) == {q[i] : i \in DOMAIN q}
IsPrefix(p, q) == Len(p) <= Len(q) /\ p = SubSeq(q, 1, Len(p))

\* The run has read its version, and the version is supported.
Supported == rec_version # <<>> /\ ~VLess(rec_version, OldestSupported)
Predates == rec_version # <<>> /\ VLess(rec_version, OldestSupported)

\* The version the metadata on disk declares.
Persisted == read_rec_version(meta)

\* C1: for a supported declared version v, every incremental step whose gate
\* the run has evaluated was executed if and only if v is below the step's
\* threshold; the executed incremental steps are in strictly increasing
\* threshold order; a run that returns has evaluated all thirteen gates.
C1_GatedByThreshold ==
    Supported =>
        /\ \A s \in tested :
              (s \in Range(called)) <=> VLess(rec_version, StepThreshold(s))
        /\ Range(called) \cap IncrementalSteps \subseteq tested
        /\ LET inc == SelectSeq(called, IsIncremental)
           IN \A i, j \in DOMAIN inc :
                 i < j => VLess(StepThreshold(inc[i]), StepThreshold(inc[j]))
        /\ pc = "done" => tested = IncrementalSteps

\* C1 witness: a run from 0.9.0 returned, having skipped the 0.8.7 step and
\* executed the 0.9.1 step and the later ones.
C1_Witness ==
    /\ pc = "done"
    /\ rec_version = <<0, 9, 0>>
    /\ "v086_to_v087" \notin Range(called)
    /\ {"v087_to_v091", "v094_to_v0913", "v18_v19"} \subseteq Range(called)

\* The incremental steps the plan holds for version v, in plan order.
ExpectedIncremental(v) ==
    SelectSeq(PlanOrder, LAMBDA s : VLess(v, StepThreshold(s)))

\* C2: a run executes the intervening steps without a gap: the incremental
\* steps executed so far are an initial segment of the plan for the declared
\* version (all of it once the run returns), each executed only after the one
\* before it returned, and for a version below 0.7.4 a conversion to 0.7.4
\* has returned before the first incremental step.
C2_NoStepSkipped ==
    Supported =>
        LET inc == SelectSeq(called, IsIncremental)
            plan == SelectSeq(called, IsPlanStep)
            expected == ExpectedIncremental(rec_version)
        IN /\ IsPrefix(inc, expected)
           /\ pc = "done" => inc = expected
           /\ \A i \in DOMAIN plan :
                 i < Len(plan) => plan[i] \in Range(completed)
           /\ (VLess(rec_version, <<0, 7, 4>>) /\ inc # <<>>) =>
                 /\ plan[1] \in LegacySteps
                 /\ plan[1] \in Range(completed)

\* C2 witness: a run from 0.4.x returned after one legacy conversion and all
\* thirteen incremental steps.
C2_Witness ==
    /\ pc = "done"
    /\ rec_version = <<0, 4, 1>>
    /\ Len(SelectSeq(called, IsPlanStep)) = 14
    /\ called[2] \in LegacySteps

\* The steps update_recording_to_recent calls after the worldless check.
AfterWorldless == {"v14_v18", "v18_v19"}

\* C3 as stated: the worldless check runs in every run that returns, and no
\* version-gated step executes after it.
C3_WorldlessAfterAllSteps ==
    /\ pc = "done" => "worldless" \in Range(completed)
    /\ \A i, j \in DOMAIN called :
          (i < j /\ called[i] = "worldless") => called[j] \notin PlanSteps

\* C3 amended: the worldless check runs exactly once in every run that
\* returns, whatever the version; it runs after the version-gated steps up to
\* the 1.4 step and before the 1.8 and 1.9 steps, whose gates are evaluated
\* only after it has returned.
C3_WorldlessBeforeV18 ==
    /\ pc = "done" =>
          Cardinality({i \in DOMAIN called : called[i] = "worldless"}) = 1
    /\ \A i, j \in DOMAIN called :
          (i < j /\ called[i] = "worldless") => called[j] \in AfterWorldless
    /\ \A i, j \in DOMAIN called :
          (j < i /\ called[i] = "worldless") => called[j] \notin AfterWorldless
    /\ tested \cap AfterWorldless # {} => "worldless" \in Range(completed)

\* C3 witness: a returned run in which the 1.4 step, the worldless check and
\* the 1.8 step ran in this order.
C3_Witness ==
    /\ pc = "done"
    /\ \E i \in DOMAIN called :
          /\ i > 1 /\ i < Len(called)
          /\ called[i - 1] = "v13_v14"
          /\ called[i] = "worldless"
          /\ called[i + 1] = "v14_v18"

\* C4: with a declared version below 0.3 the run never gets past the legacy
\* dispatch, it calls no version-gated step and evaluates no gate, and the
\* version field on disk is the one the run started with.
C4_TooOldLeavesVersion ==
    Predates =>
        /\ pc \in {"bytes", "legacy", "raised"}
        /\ Range(called) \cap PlanSteps = {}
        /\ tested = {}
        /\ DFV \in DOMAIN meta /\ DFV \in DOMAIN meta0
        /\ meta[DFV] = meta0[DFV]

\* C4 witness: the run on a recording declaring "0.2" has aborted.
C4_Witness ==
    /\ pc = "raised"
    /\ failed = "too_old"
    /\ rec_version = <<0, 2, 0>>
    /\ meta[DFV] = VStr(FALSE, <<0, 2>>)

\* C5: with a declared version below 0.3 the run never returns normally; once
\* it has passed the legacy dispatch it has ended with the exception raised in
\* the too-old branch.
C5_TooOldRaises ==
    Predates =>
        /\ pc # "done"
        /\ pc \notin {"bytes", "legacy"} => (pc = "raised" /\ failed = "too_old")

\* C5 witness: a too-old run that ended with the exception, after the
\* bytes-to-unicode conversion had been called.
C5_Witness ==
    /\ Predates
    /\ pc = "raised"
    /\ failed = "too_old"
    /\ called = <<"bytes_to_unicode">>

\* Step s returns in this transition.
StepCompletes(s) == completed' = Append(completed, s)

\* The version field on disk does not go down in this transition.
VersionNotLowered ==
    DFV \in DOMAIN meta =>
        /\ DFV \in DOMAIN meta'
        /\ ~VLess(read_rec_version(meta'), read_rec_version(meta))

\* C6 as stated: the version field never decreases, and every migration step
\* that completes (the conversions to 0.7.4 included) advances it to the
\* step's target version.
C6_AdvancesPerCompletedStep ==
    [][/\ VersionNotLowered
       /\ \A s \in PlanSteps :
             StepCompletes(s) =>
                /\ read_rec_version(meta') = StepTarget(s)
                /\ VLess(read_rec_version(meta), read_rec_version(meta'))]_vars

\* C6 amended: the version field never decreases over any sequence of runs;
\* every incremental (threshold) step that completes advances it, strictly,
\* to that step's target version, and it changes in no other transition of a
\* run than such a completion or the Pupil Mobile stamp; the conversions to
\* 0.7.4 complete without changing it.
C6_AdvancesPerIncrementalStep ==
    [][/\ VersionNotLowered
       /\ \A s \in IncrementalSteps :
             StepCompletes(s) =>
                /\ read_rec_version(meta') = StepTarget(s)
                /\ VLess(read_rec_version(meta), read_rec_version(meta'))
       /\ \A s \in LegacySteps : StepCompletes(s) => meta' = meta
       /\ meta' # meta =>
             \/ \E s \in IncrementalSteps : StepCompletes(s)
             \/ /\ DFV \notin DOMAIN meta
                /\ completed' = <<"mobile">>
                /\ read_rec_version(meta') = StepTarget("mobile")]_vars

\* C6 witness: a second run has returned on a recording that started at
\* 0.5.x: the conversion to 0.7.4 completed in the first run, which failed
\* later, and the version on disk is now 1.9.
C6_Witness ==
    /\ pc = "done"
    /\ runs = 2
    /\ "v05_to_v074" \in Range(prev.completed)
    /\ prev.failed \in IncrementalSteps
    /\ Persisted = <<1, 9, 0>>

\* C7: whatever steps have persisted their version since the run started,
\* every key the metadata had then is still there, and every key but the
\* version key has the value it had.
C7_OtherKeysUntouched ==
    \A k \in DOMAIN meta0 :
        /\ k \in DOMAIN meta
        /\ k # DFV => meta[k] = meta0[k]

\* C7 witness: steps have persisted new versions into metadata that holds
\* other keys.
C7_Witness ==
    /\ Len(SelectSeq(completed, IsIncremental)) >= 3
    /\ {CSW, RNAME} \subseteq DOMAIN meta0
    /\ meta[DFV] # meta0[DFV]

\* The steps that load the pupil_data object as their first statement.
PupilDataSteps ==
    {"v082_to_v083", "v083_to_v086", "v086_to_v087", "v091_to_v093",
     "v0913_to_v0915"}

C9_ResumesAtFailedStep ==
    prev.failed \in PlanSteps =>
        LET plan == SelectSeq(called, IsPlanStep)
        IN /\ Range(plan) \cap Range(prev.completed) = {}
           /\ plan # <<>> => plan[1] = prev.failed
           /\ pc \in {"done", "raised"} => plan # <<>>

\* C9 witness: the first run completed steps and failed in the 0.9.13 step;
\* the second run started with that step and went on.
C9_Witness ==
    /\ prev.failed = "v094_to_v0913"
    /\ Len(SelectSeq(prev.completed, IsPlanStep)) >= 2
    /\ Len(called) >= 2
    /\ called[1] = "v094_to_v0913"

\* The steps that have saved a data transformation when they return: all but
\* the three that only persist a version, and the 0.9.13 step only when
\* there was an audio.wav to transcode.
TransformingSteps ==
    (PlanSteps \cup {"mobile"})
        \ ({"v074_to_v082", "v087_to_v091", "v13_v14"}
             \cup (IF files.audio_wav THEN {} ELSE {"v094_to_v0913"}))

\* C10: when a step has raised, the version on disk is the target of the last
\* version-gated step (or Pupil Mobile conversion) that completed in the run,
\* or the field the run started with when none did; and what the completed
\* steps saved is still on disk.
C10_MarkerNotAdvanced ==
    (pc = "raised" /\ failed \in PlanSteps \cup {"worldless"}) =>
        LET done == SelectSeq(completed, IsVersionedStep)
        IN /\ IF done = <<>>
              THEN meta[DFV] = meta0[DFV]
              ELSE Persisted = StepTarget(done[Len(done)])
           /\ failed \in PlanSteps => Persisted # StepTarget(failed)
           /\ Range(completed) \cap TransformingSteps \subseteq touched

\* C10 witness: the transcode of the 0.9.13 step crashed after earlier steps
\* of the same run had completed; the partial audio.mp4 is on disk.
C10_Witness ==
    /\ pc = "raised"
    /\ failed = "v094_to_v0913"
    /\ files.audio_mp4
    /\ "v093_to_v094" \in Range(completed)
    /\ Persisted = <<0, 9, 4>>

\* ---------------------------------------------------------------- C11
\* The newest threshold of the plan.
Newest == <<1, 9, 0>>

\* C11: a run that returns from a supported version below the newest
\* threshold has executed, and completed, exactly the incremental steps whose
\* threshold is above the version, in ascending threshold order, and the
\* metadata on disk then declares v1.9.
C11_EndsAtNewest ==
    (pc = "done" /\ Supported /\ VLess(rec_version, Newest)) =>
        LET inc == SelectSeq(called, IsIncremental)
        IN /\ inc = ExpectedIncremental(rec_version)
           /\ SelectSeq(completed, IsIncremental) = inc
           /\ \A i, j \in DOMAIN inc :
                 i < j => VLess(StepThreshold(inc[i]), StepThreshold(inc[j]))
           /\ failed = "none"
           /\ Persisted = Newest
           /\ meta[DFV] = VStr(TRUE, <<1, 9>>)

\* C11 witness: a run from 0.9.0 returned after the nine steps from 0.9.1 to
\* 1.9 and the metadata declares v1.9.
C11_Witness ==
    /\ pc = "done"
    /\ rec_version = <<0, 9, 0>>
    /\ SelectSeq(completed, IsIncremental) =
          <<"v087_to_v091", "v091_to_v093", "v093_to_v094", "v094_to_v0913",
            "v0913_to_v0915", "v0915_v13", "v13_v14", "v14_v18", "v18_v19">>
    /\ Persisted = Newest

\* ---------------------------------------------------------------- C12
\* The recording as it is on disk: metadata, files, saved transformations.
Recording == <<meta, files, touched>>

\* C12: every step of a run whose declared version is at or above the newest
\* threshold calls no version-gated step and leaves the metadata (version
\* field and other keys), the files and the saved data transformations as
\* they are, the artificial world of the worldless check apart; and every
\* step of a run that follows a run that returned leaves the whole recording
\* unchanged and does not raise.
C12_NewestIsFixpoint ==
    [][ /\ (rec_version' # <<>> /\ ~VLess(rec_version', Newest)) =>
              /\ meta' = meta
              /\ files' = files
              /\ touched' \ {"worldless"} = touched \ {"worldless"}
              /\ Range(called') \subseteq {"worldless"}
        /\ (pc = "done" \/ (runs >= 2 /\ prev.failed = "none")) =>
              /\ Recording' = Recording
              /\ Range(called') \subseteq {"worldless"}
              /\ pc' # "raised"
      ]_vars

\* C12 witness: a second run has returned after a first run that migrated
\* the recording from below 1.9; it called the worldless check only and the
\* metadata is the one the first run left.
C12_Witness ==
    /\ pc = "done"
    /\ runs = 2
    /\ prev.failed = "none"
    /\ "v18_v19" \in Range(prev.completed)
    /\ rec_version = Newest
    /\ called = <<"worldless">>
    /\ meta = meta0

\* ---------------------------------------------------------------- C13
\* The outcome of the last transcode attempt of this run.
LastAttempt == transcodes[Len(transcodes)]

\* C13 as stated: whenever the first transcode attempt of the 0.9.13 step
\* fails the step makes exactly one more attempt; a failed last attempt is
\* raised to the caller; the version is at 0.9.13 only after an attempt that
\* succeeded.
C13_RetriedOnAnyFailure ==
    transcodes # <<>> =>
        /\ transcodes[1] # "ok" => Len(transcodes) = 2
        /\ LastAttempt # "ok" =>
              /\ pc = "raised"
              /\ failed = "v094_to_v0913"
              /\ VLess(Persisted, <<0, 9, 13>>)
        /\ LastAttempt = "ok" => "v094_to_v0913" \in Range(completed)

\* C13, amended: the step makes a second transcode attempt exactly when the
\* first one raised AVError 22 while encoding, and never a third; any other
\* failure of the first attempt, and any failure of the second, is raised to
\* the caller and leaves the persisted version below 0.9.13; the step has
\* returned, with the version at 0.9.13 or above, exactly when its last
\* attempt succeeded; a step called on a recording with audio.wav makes at
\* least one attempt.
C13_RetriedOnceOnAVError22 ==
    /\ transcodes # <<>> =>
          /\ Len(transcodes) <= 2
          /\ Len(transcodes) = 2 <=> transcodes[1] = "averr22"
          /\ files.audio_wav
          /\ "v094_to_v0913" \in Range(called)
          /\ LastAttempt # "ok" =>
                /\ pc = "raised"
                /\ failed = "v094_to_v0913"
                /\ "v094_to_v0913" \notin Range(completed)
                /\ VLess(Persisted, <<0, 9, 13>>)
          /\ LastAttempt = "ok" =>
                /\ "v094_to_v0913" \in Range(completed)
                /\ ~VLess(Persisted, <<0, 9, 13>>)
    /\ ("v094_to_v0913" \in Range(called) /\ files.audio_wav) =>
          transcodes # <<>>

\* C13 witness: the first attempt raised AVError 22, the retry failed too,
\* and the run ended with the exception of the step.
C13_Witness ==
    /\ Len(transcodes) = 2
    /\ transcodes[1] = "averr22"
    /\ transcodes[2] # "ok"
    /\ pc = "raised"
    /\ failed = "v094_to_v0913"

\* ---------------------------------------------------------------- C14
\* p is q with some elements left out.
RECURSIVE IsSubseq(_, _)
IsSubseq(p, q) ==
    IF p = <<>> THEN TRUE
    ELSE IF q = <<>> THEN FALSE
    ELSE IF Head(p) = Head(q) THEN IsSubseq(Tail(p), Tail(q))
    ELSE IsSubseq(p, Tail(q))

\* A run that ended without a failing step: it returned, or it ended at the
\* too-old branch.
EndedWithoutStepFailure ==
    \/ pc = "done"
    \/ pc = "raised" /\ failed = "too_old"

\* C14 as stated: the steps executed by a run from v1 in which no step
\* failed contain, in the same order, every step a run from any later
\* version v2 executes, and are at least as many.
C14_ContainsLaterPlan ==
    EndedWithoutStepFailure =>
        LET steps1 == SelectSeq(called, IsPlanStep)
        IN \A v2 \in VersionGrid :
              VLess(rec_version, v2) =>
                 /\ IsSubseq(StepsTable[v2], steps1)
                 /\ Len(StepsTable[v2]) <= Len(steps1)

\* C14, amended: a run that returns from a supported version v1 has executed
\* the steps the gates select for v1; they contain, in the same order, every
\* threshold step selected for any later version v2, and the number of
\* steps selected (conversion to 0.7.4 included) is no larger for v2.
C14_ContainsLaterThresholdSteps ==
    (pc = "done" /\ Supported) =>
        LET steps1 == SelectSeq(called, IsPlanStep)
        IN /\ steps1 = StepsOfRun(rec_version)
           /\ \A v2 \in VersionGrid :
                 VLess(rec_version, v2) =>
                    /\ IsSubseq(IncrementalTable[v2], steps1)
                    /\ Len(StepsTable[v2]) <= Len(steps1)

\* C14 witness: a run from 0.8.5 returned after the eleven steps from 0.8.6
\* on, while a run from the later 0.9.2 is to execute eight of them.
C14_Witness ==
    /\ pc = "done"
    /\ rec_version = <<0, 8, 5>>
    /\ Len(SelectSeq(called, IsPlanStep)) = 11
    /\ Len(StepsOfRun(<<0, 9, 2>>)) = 8
    /\ IsSubseq(StepsOfRun(<<0, 9, 2>>), SelectSeq(called, IsPlanStep))

\* ================================================= claims on the indexes
\* The timestamp (for an Affiliator: the start) and the stop a datum was
\* supplied with, at construction or at its insertion.
SuppliedTs(d) ==
    IF d <= MaxLen THEN supplied.data_ts[d]
    ELSE supplied.inserted[d - MaxLen][1]

SuppliedStop(d) == supplied.stop_ts[d]

\* The data handed to the index so far.
SuppliedData ==
    Range(supplied.data) \cup {supplied.inserted[k][2] : k \in DOMAIN supplied.inserted}

Ascending(seq) == \A i \in 1..(Len(seq) - 1) : seq[i] <= seq[i + 1]

\* ---------------------------------------------------------------- C15
\* C15: in every constructed index, after any insertions, the timestamp
\* array and the data list have the same length, the timestamps ascend, the
\* data are those supplied, each once, and each datum is at the index of the
\* timestamp it was supplied with.
C15_SortedAndPaired ==
    Constructed =>
        /\ Len(bisector.data_ts) = Len(bisector.data)
        /\ Ascending(bisector.data_ts)
        /\ Range(bisector.data) = SuppliedData
        /\ Len(bisector.data) = Cardinality(SuppliedData)
        /\ \A i \in DOMAIN bisector.data :
              bisector.data_ts[i] = SuppliedTs(bisector.data[i])

\* C15 witness: an index built from timestamps <<3, 1>> into which a datum
\* with timestamp 2 was inserted holds the data in the order second,
\* inserted, first.
C15_Witness ==
    /\ bisector.kind = "Mutable_Bisector"
    /\ supplied.data_ts = <<3, 1>>
    /\ supplied.inserted = << <<2, InsertedDatum(1)>> >>
    /\ bisector.data = <<2, InsertedDatum(1), 1>>
    /\ bisector.data_ts = <<1, 2, 3>>

\* ---------------------------------------------------------------- C16
\* C16: by_ts(ts) returns a datum exactly when ts is the timestamp of some
\* datum supplied to the index, and the datum returned is one that was
\* supplied with ts; for every other ts it raises ValueError and returns
\* nothing.
C16_ExactLookup ==
    outcome.op = "by_ts" =>
        LET ts == outcome.args[1]
        IN /\ outcome.raised = "none" <=>
                 \E d \in SuppliedData : SuppliedTs(d) = ts
           /\ outcome.raised = "none" =>
                 /\ Len(outcome.value) = 1
                 /\ outcome.value[1] \in SuppliedData
                 /\ SuppliedTs(outcome.value[1]) = ts
           /\ outcome.raised # "none" =>
                 /\ outcome.raised = "ValueError"
                 /\ outcome.value = <<>>

\* C16 witness: on an index holding the timestamps 1, 2 and 3, by_ts(2)
\* returned the datum in the middle.
C16_Witness ==
    /\ outcome.op = "by_ts"
    /\ outcome.args = <<2>>
    /\ bisector.data_ts = <<1, 2, 3>>
    /\ outcome.raised = "none"
    /\ outcome.value = <<bisector.data[2]>>

\* ---------------------------------------------------------------- C17
\* C17: on a Bisector, by_ts_window((a, b)) returns the data supplied with a
\* timestamp t, a <= t < b, each once and no other, in ascending order of
\* their timestamps; it returns the empty list when there is none, and it
\* does not raise.
C17_WindowLookup ==
    (outcome.op = "by_ts_window" /\ bisector.kind # "Affiliator") =>
        LET a == outcome.args[1]
            b == outcome.args[2]
            inside == {d \in SuppliedData : a <= SuppliedTs(d) /\ SuppliedTs(d) < b}
        IN /\ outcome.raised = "none"
           /\ Range(outcome.value) = inside
           /\ Len(outcome.value) = Cardinality(inside)
           /\ Ascending([i \in DOMAIN outcome.value |->
                            SuppliedTs(outcome.value[i])])

\* C17 witness: on an index holding the timestamps 1, 2 and 3, the window
\* (1, 3) returned the first two data and left out the one at 3.
C17_Witness ==
    /\ outcome.op = "by_ts_window"
    /\ bisector.kind # "Affiliator"
    /\ outcome.args = <<1, 3>>
    /\ bisector.data_ts = <<1, 2, 3>>
    /\ outcome.value = <<bisector.data[1], bisector.data[2]>>

\* ---------------------------------------------------------------- C18
\* C18 as stated: on an Affiliator, the window lookup (a, b) returns every
\* interval whose stop is >= a and whose start is < b, and no interval whose
\* stop is < a or whose start is >= b.
C18_WindowReturnsOverlapping ==
    (outcome.op = "by_ts_window" /\ bisector.kind = "Affiliator") =>
        LET a == outcome.args[1]
            b == outcome.args[2]
        IN \A d \in SuppliedData :
              /\ (SuppliedStop(d) >= a /\ SuppliedTs(d) < b) =>
                    d \in Range(outcome.value)
              /\ (SuppliedStop(d) < a \/ SuppliedTs(d) >= b) =>
                    d \notin Range(outcome.value)

\* ---------------------------------------------------------------- C19
\* C19: a constructed Affiliator holds data, starts and stops of one length,
\* the starts ascending, each of the three being the supplied sequence
\* reordered by sorted_idc, so that index i holds a datum with the start and
\* the stop it was supplied with; the data are those supplied, each once.
C19_AffiliatorTriples ==
    bisector.kind = "Affiliator" =>
        /\ Len(bisector.data_ts) = Len(bisector.data)
        /\ Len(bisector.stop_ts) = Len(bisector.data)
        /\ Ascending(bisector.data_ts)
        /\ Range(bisector.data) = SuppliedData
        /\ Len(bisector.data) = Cardinality(SuppliedData)
        /\ \A i \in DOMAIN bisector.data :
              /\ bisector.data[i] = supplied.data[bisector.sorted_idc[i]]
              /\ bisector.data_ts[i] = supplied.data_ts[bisector.sorted_idc[i]]
              /\ bisector.stop_ts[i] = supplied.stop_ts[bisector.sorted_idc[i]]
              /\ bisector.data_ts[i] = SuppliedTs(bisector.data[i])
              /\ bisector.stop_ts[i] = SuppliedStop(bisector.data[i])

\* C19 witness: the intervals (2, 3) and (1, 1), supplied in this order, are
\* held in the order (1, 1), (2, 3).
C19_Witness ==
    /\ bisector.kind = "Affiliator"
    /\ supplied.data_ts = <<2, 1>>
    /\ supplied.stop_ts = <<3, 1>>
    /\ bisector.data = <<2, 1>>
    /\ bisector.data_ts = <<1, 2>>
    /\ bisector.stop_ts = <<1, 3>>

\* ---------------------------------------------------------------- C20
\* C20: construction from data and timestamps of different lengths raises
\* ValueError and leaves no index; construction from two empty sequences
\* does not raise and gives an index of length 0, on which a window lookup
\* returns the empty list and an exact lookup raises ValueError.
C20_MismatchAndEmpty ==
    /\ Len(supplied.data) # Len(supplied.data_ts) =>
          /\ ~Constructed
          /\ outcome.op = "init"
          /\ outcome.raised = "ValueError"
    /\ (outcome.op = "init" /\ supplied.data = <<>> /\ supplied.data_ts = <<>>) =>
          /\ outcome.raised = "none"
          /\ Constructed
    /\ (Constructed /\ supplied.data = <<>> /\ supplied.inserted = <<>>) =>
          /\ Len(bisector.data) = 0
          /\ Len(bisector.data_ts) = 0
          /\ outcome.op = "by_ts_window" =>
                outcome.raised = "none" /\ outcome.value = <<>>
          /\ outcome.op = "by_ts" =>
                outcome.raised = "ValueError" /\ outcome.value = <<>>

\* C20 witness: an exact lookup on a Bisector built from two empty sequences
\* raised ValueError.
C20_Witness ==
    /\ bisector.kind = "Bisector"
    /\ supplied.data = <<>>
    /\ supplied.data_ts = <<>>
    /\ Len(bisector.data_ts) = 0
    /\ outcome.op = "by_ts"
    /\ outcome.raised = "ValueError"

\* ====================================================== correlate_data
\* Bounds of the correlation model: events and frame timestamps of one call.
MaxEvents == 2
MaxFrames == 3

\* The timestamps of events and frames.
FrameTimes == 0..MaxTs

\* The migration and the indexes at rest, for the specifications of the
\* other functions.
MigAtRest ==
    /\ meta = [k \in {DFV, RNAME} |-> IF k = DFV THEN "v1.9" ELSE "rec"]
    /\ files = [pupil_data |-> TRUE, legacy_npy |-> FALSE, audio_wav |-> FALSE,
                audio_mp4 |-> FALSE, world_video |-> TRUE, eye_ts |-> TRUE]
    /\ touched = {}
    /\ pc = "idle"
    /\ rec_version = <<>>
    /\ tested = {}
    /\ called = <<>>
    /\ completed = <<>>
    /\ failed = "none"
    /\ meta0 = meta
    /\ prev = [completed |-> <<>>, failed |-> "none"]
    /\ runs = 0
    /\ transcodes = <<>>

BisAtRest ==
    /\ bisector = NoIndex
    /\ supplied = NoArguments
    /\ outcome = NoCall

\* data.sort(key=lambda d: d["timestamp"]) (line 181): the events, named by
\* their position in the argument, in ascending timestamp order; list.sort
\* is stable, so equal timestamps keep the order of the argument.
sort_by_timestamp(given) ==
    CHOOSE p \in [1..Len(given) -> 1..Len(given)] :
        /\ \A i, j \in 1..Len(given) : i # j => p[i] # p[j]
        /\ \A i \in 1..(Len(given) - 1) :
              \/ given[p[i]] < given[p[i + 1]]
              \/ given[p[i]] = given[p[i + 1]] /\ p[i] < p[i + 1]

\* The arguments of a call: the timestamps of the events and of the frames.
CorrInit ==
    /\ \E n \in 0..MaxEvents, m \in 0..MaxFrames :
          \E given \in [1..n -> FrameTimes], timestamps \in [1..m -> FrameTimes] :
             corr = [NoCorrelation EXCEPT !.pc = "called", !.given = given,
                                          !.timestamps = timestamps]
    /\ batch = NoBatch
    /\ pdata = NoEventData
    /\ gui = NoGui
    /\ MigAtRest
    /\ BisAtRest

CorrFrame == UNCHANGED <<migVars, bisVars, batch, pdata, gui>>

\* Lines 175-181: one empty bucket per frame timestamp, both cursors at 0,
\* the events sorted.
Enter ==
    /\ corr.pc = "called"
    /\ corr' = [corr EXCEPT
                  !.pc = "loop",
                  !.data_by_frame = [i \in 1..Len(corr.timestamps) |-> <<>>],
                  !.frame_idx = 0,
                  !.data_index = 0,
                  !.data = sort_by_timestamp(corr.given)]
    /\ CorrFrame

\* Lines 184-189: data[data_index] or timestamps[frame_idx + 1] is past the
\* end (cursors are 0-based as in the source).
RaisesIndexError ==
    \/ corr.data_index >= Len(corr.data)
    \/ corr.frame_idx + 1 >= Len(corr.timestamps)

\* Variant of the comparison with the commented-out line 189: ts is the time
\* of the next frame.
NextFrame_AtOrBeforeMidpoint ==
    corr.given[corr.data[corr.data_index + 1]]
       <= corr.timestamps[corr.frame_idx + 2]

\* Line 195, `datum["timestamp"] <= ts` with ts the midpoint of line 187:
\* both sides doubled.
AtOrBeforeMidpoint ==
    2 * corr.given[corr.data[corr.data_index + 1]]
       <= corr.timestamps[corr.frame_idx + 1] + corr.timestamps[corr.frame_idx + 2]

\* Lines 190-192: the IndexError ends the loop and the buckets are returned.
Break ==
    /\ corr.pc = "loop"
    /\ RaisesIndexError
    /\ corr' = [corr EXCEPT !.pc = "returned"]
    /\ CorrFrame

\* Variant of Assign that puts the event in the bucket and leaves the event
\* cursor where it is (a bucket is not filled beyond MaxEvents + 1 entries).
Stuck_Assign ==
    /\ corr.pc = "loop"
    /\ ~RaisesIndexError
    /\ AtOrBeforeMidpoint
    /\ Len(corr.data_by_frame[corr.frame_idx + 1]) <= MaxEvents
    /\ corr' = [corr EXCEPT
                  !.data_by_frame[corr.frame_idx + 1] =
                      Append(@, corr.data[corr.data_index + 1]),
                  !.iterations = @ + 1]
    /\ CorrFrame

\* Lines 195-198: the event goes to the bucket of the current frame and the
\* event cursor advances.
Assign ==
    /\ corr.pc = "loop"
    /\ ~RaisesIndexError
    /\ AtOrBeforeMidpoint
    /\ corr' = [corr EXCEPT
                  !.data_by_frame[corr.frame_idx + 1] =
                      Append(@, corr.data[corr.data_index + 1]),
                  !.data_index = @ + 1,
                  !.iterations = @ + 1]
    /\ CorrFrame

\* Variant of NextFrame whose frame cursor skips a frame.
Skipping_NextFrame ==
    /\ corr.pc = "loop"
    /\ ~RaisesIndexError
    /\ ~AtOrBeforeMidpoint
    /\ corr' = [corr EXCEPT !.frame_idx = @ + 2, !.iterations = @ + 1]
    /\ CorrFrame

\* Lines 199-200: the frame cursor advances; the same event is tested again.
NextFrame ==
    /\ corr.pc = "loop"
    /\ ~RaisesIndexError
    /\ ~AtOrBeforeMidpoint
    /\ corr' = [corr EXCEPT !.frame_idx = @ + 1, !.iterations = @ + 1]
    /\ CorrFrame

CorrNext ==
    \/ Enter
    \/ Break
    \/ Assign
    \/ NextFrame

SpecCorrelate == CorrInit /\ [][CorrNext]_vars

\* The loop is a plain sequential loop: each pass is taken once it can be.
SpecCorrelateFair == SpecCorrelate /\ WF_vars(CorrNext)

\* ============================================ claims on correlate_data
\* The buckets exist once line 176 has run.
Bucketed == corr.pc \in {"loop", "returned"}

\* The events of the call, by position in the argument, and their times.
Events == 1..Len(corr.given)
EventTime(e) == corr.given[e]

\* The places <<bucket, position>> at which event e is held.
PlacesOf(e) ==
    {<<i, j>> \in (1..Len(corr.data_by_frame)) \X (1..(MaxEvents + 2)) :
        /\ j <= Len(corr.data_by_frame[i])
        /\ corr.data_by_frame[i][j] = e}

\* ---------------------------------------------------------------- C21
\* C21: correlate_data holds, and returns, one bucket per frame timestamp;
\* a bucket holds input events only, every event is held at most once over
\* all buckets, and the events of a bucket are in ascending timestamp order.
C21_BucketsPartition ==
    Bucketed =>
        /\ Len(corr.data_by_frame) = Len(corr.timestamps)
        /\ \A i \in DOMAIN corr.data_by_frame :
              /\ Range(corr.data_by_frame[i]) \subseteq Events
              /\ Ascending([j \in DOMAIN corr.data_by_frame[i] |->
                              EventTime(corr.data_by_frame[i][j])])
        /\ \A e \in Events : Cardinality(PlacesOf(e)) <= 1

\* C21 witness: events timed 1 and 0, given in this order, were both put in
\* the bucket of the first of two frames, the later-given event first.
C21_Witness ==
    /\ corr.pc = "returned"
    /\ corr.given = <<1, 0>>
    /\ corr.timestamps = <<0, 3>>
    /\ corr.data_by_frame = << <<2, 1>>, <<>> >>

\* ---------------------------------------------------------------- C22
\* Twice the midpoint between frame i and the frame after it (i 0-based).
TwiceMidpoint(i) == corr.timestamps[i + 1] + corr.timestamps[i + 2]

\* C22: when correlate_data returns, the bucket of the last frame is empty,
\* and so is every bucket when there is at most one frame; for ascending
\* frame timestamps, an event timed t is in the bucket of frame i (0-based,
\* of m frames) exactly when i < m-1, t is at or before the midpoint after
\* frame i and, for i > 0, t is after the midpoint before frame i.
C22_MidpointBuckets ==
    corr.pc = "returned" =>
        LET m == Len(corr.timestamps)
        IN /\ m >= 1 => corr.data_by_frame[m] = <<>>
           /\ Ascending(corr.timestamps) =>
                 \A e \in Events : \A i \in 0..(m - 1) :
                    e \in Range(corr.data_by_frame[i + 1]) <=>
                       /\ i < m - 1
                       /\ 2 * EventTime(e) <= TwiceMidpoint(i)
                       /\ i = 0 \/ 2 * EventTime(e) > TwiceMidpoint(i - 1)

\* C22 witness: with frames at 0, 1 and 3 the event timed 1 is in the bucket
\* of the middle frame and the event timed 3, after the last midpoint, is in
\* none.
C22_Witness ==
    /\ corr.pc = "returned"
    /\ corr.timestamps = <<0, 1, 3>>
    /\ corr.given = <<3, 1>>
    /\ corr.data_by_frame = << <<>>, <<2>>, <<>> >>

\* ---------------------------------------------------------------- C25
\* One step of the call: no cursor moves backwards; a pass that stays in the
\* loop advances exactly one of the two cursors, by one, and counts as one
\* iteration; the pass that leaves the loop moves neither.
C25_PassAdvancesOneCursor ==
    /\ corr'.data_index >= corr.data_index
    /\ corr'.frame_idx >= corr.frame_idx
    /\ (corr.pc = "loop" /\ corr'.pc = "loop") =>
          /\ corr'.iterations = corr.iterations + 1
          /\ \/ /\ corr'.data_index = corr.data_index + 1
                /\ corr'.frame_idx = corr.frame_idx
             \/ /\ corr'.frame_idx = corr.frame_idx + 1
                /\ corr'.data_index = corr.data_index
    /\ (corr.pc = "loop" /\ corr'.pc = "returned") =>
          /\ corr'.data_index = corr.data_index
          /\ corr'.frame_idx = corr.frame_idx
          /\ corr'.iterations = corr.iterations

\* C25: every call of correlate_data returns; each pass of the loop that
\* does not leave it advances exactly one cursor by one, no cursor moves
\* backwards, and the number of such passes never exceeds the number of
\* events plus the number of frame timestamps.
C25_Terminates ==
    /\ <>(corr.pc = "returned")
    /\ [][C25_PassAdvancesOneCursor]_vars
    /\ [](/\ corr.iterations = corr.data_index + corr.frame_idx
          /\ corr.data_index <= Len(corr.given)
          /\ corr.frame_idx <= Len(corr.timestamps)
          /\ corr.iterations <= Len(corr.given) + Len(corr.timestamps))

\* C25 witness: a call with two events and three frames returned after
\* three iterations, one event placed and the frame cursor at the last
\* frame.
C25_Witness ==
    /\ corr.pc = "returned"
    /\ Len(corr.given) = 2
    /\ Len(corr.timestamps) = 3
    /\ corr.iterations = 3
    /\ corr.data_index = 1
    /\ corr.frame_idx = 2

\* =================================================== extract_diameter.main
\* Bounds of the export model: the recordings of one batch, and the rows one
\* extraction yields.
MaxRecs == 2
MaxRows == 1

\* csv_out holds one name per output file, two per recording at most; a name
\* is modelled by its 0-based position in csv_out, and all outputs go to one
\* directory, so a name is a path.
Names == 0..(2 * MaxRecs - 1)

\* A file that does not exist, and a file written before the batch.
Absent == [exists |-> FALSE, rows |-> <<>>]
OldFile == [exists |-> TRUE, rows |-> <<"old">>]

\* csv_header() and csv_header_annotations() (lines 102-119), as one row.
Header(fn) ==
    IF fn = "process_recording" THEN "csv_header" ELSE "csv_header_annotations"

\* The first j rows load_and_yield_data / load_and_yield_annotations (lines
\* 121-179) extract from recording k.
ExtractedRows(fn, k, j) == [i \in 1..j |-> [rec |-> k, of |-> fn, row |-> i]]

\* What an extraction does once the output file is open and the header is
\* written: it yields some rows (none when the recording's input files are
\* missing: that FileNotFoundError is caught inside the generator) and then
\* ends, or raises ValueError or another error (KeyError for a datum without
\* diameter) in place of the next row.
Extractions == [yielded : 0..MaxRows, raised : {"none", "ValueError", "KeyError"}]

\* The arguments of main and the output directory before the batch.
BatchInit ==
    /\ \E n \in 0..MaxRecs, overwrite, annotations \in BOOLEAN :
          \E disk \in [Names -> {Absent, OldFile}] :
             batch = [pc |-> IF n = 0 THEN "done" ELSE "rec",
                      n |-> n, overwrite |-> overwrite,
                      annotations |-> annotations, disk |-> disk,
                      k |-> 0, idx |-> 0, opened |-> {}, log |-> <<>>]
    /\ corr = NoCorrelation
    /\ pdata = NoEventData
    /\ gui = NoGui
    /\ MigAtRest
    /\ BisAtRest

BatchFrame == UNCHANGED <<migVars, bisVars, corr, pdata, gui>>

\* One call of a process function, as the history keeps it.
Logged(fn, name, result, yielded) ==
    [rec |-> batch.k, fn |-> fn, name |-> name, result |-> result,
     yielded |-> yielded, existed |-> batch.disk[name].exists]

\* Where main goes after a call that returned, that raised an exception main
\* catches (lines 32-40), or that raised another one.
AfterCall(fn, result) ==
    CASE result \in {"FileNotFoundError", "ValueError"} -> "next"
      [] result \in {"returned", "refused"} ->
            IF fn = "process_recording" /\ batch.annotations
            THEN "ann" ELSE "next"
      [] OTHER -> "raised"

\* Variant of write_csv that ignores the overwrite argument and writes over
\* an existing file.
Clobbering_write_csv(fn, name) ==
    \/ /\ ~batch.disk[name].exists
       /\ batch' = [batch EXCEPT
                      !.log = Append(@, Logged(fn, name, "FileNotFoundError", 0)),
                      !.pc = AfterCall(fn, "FileNotFoundError")]
    \/ \E x \in Extractions :
          LET rows == ExtractedRows(fn, batch.k, x.yielded)
              result == IF x.raised = "none" THEN "returned" ELSE x.raised
          IN batch' = [batch EXCEPT
                         !.disk[name] = [exists |-> TRUE,
                                         rows |-> <<Header(fn)>> \o rows],
                         !.opened = @ \cup {name},
                         !.log = Append(@, Logged(fn, name, result, x.yielded)),
                         !.pc = AfterCall(fn, result)]

\* The body the two process functions share (lines 60-73 and 87-100): an
\* existing file is left alone unless overwrite is set; otherwise the file is
\* opened for writing, which truncates it (and fails with FileNotFoundError
\* when the file is new and its directory is missing), the header is written
\* and then the rows, as the extraction yields them.
write_csv(fn, name) ==
    IF batch.disk[name].exists /\ ~batch.overwrite
    THEN batch' = [batch EXCEPT
                     !.log = Append(@, Logged(fn, name, "refused", 0)),
                     !.pc = AfterCall(fn, "refused")]
    ELSE \/ /\ ~batch.disk[name].exists
            /\ batch' = [batch EXCEPT
                           !.log = Append(@, Logged(fn, name, "FileNotFoundError", 0)),
                           !.pc = AfterCall(fn, "FileNotFoundError")]
         \/ \E x \in Extractions :
               LET rows == ExtractedRows(fn, batch.k, x.yielded)
                   result == IF x.raised = "none" THEN "returned" ELSE x.raised
               IN batch' = [batch EXCEPT
                              !.disk[name] = [exists |-> TRUE,
                                              rows |-> <<Header(fn)>> \o rows],
                              !.opened = @ \cup {name},
                              !.log = Append(@, Logged(fn, name, result, x.yielded)),
                              !.pc = AfterCall(fn, result)]

\* Line 28: process_recording(rec, csv_out[idx], ...).
process_recording ==
    /\ batch.pc = "rec"
    /\ write_csv("process_recording", batch.idx)
    /\ BatchFrame

\* Lines 29-30: process_recording_annotations(rec, csv_out[idx+1], ...).
process_recording_annotations ==
    /\ batch.pc = "ann"
    /\ write_csv("process_recording_annotations", batch.idx + 1)
    /\ BatchFrame

\* The current recording ended in an exception that main caught.
Caught ==
    /\ batch.log # <<>>
    /\ batch.log[Len(batch.log)].rec = batch.k
    /\ batch.log[Len(batch.log)].result \in {"FileNotFoundError", "ValueError"}

\* Variant of NextRecording whose idx update is inside the try: a recording
\* that raised leaves idx as it is.
InsideTry_NextRecording ==
    /\ batch.pc = "next"
    /\ batch' = [batch EXCEPT
                   !.idx = IF Caught THEN @
                           ELSE IF batch.annotations THEN @ + 2 ELSE @ + 1,
                   !.k = @ + 1,
                   !.pc = IF batch.k + 1 < batch.n THEN "rec" ELSE "done"]
    /\ BatchFrame

\* Lines 42-46: after the try statement idx moves on by two names with
\* annotations and by one without; the loop takes the next recording or
\* main returns.
NextRecording ==
    /\ batch.pc = "next"
    /\ batch' = [batch EXCEPT
                   !.idx = IF batch.annotations THEN @ + 2 ELSE @ + 1,
                   !.k = @ + 1,
                   !.pc = IF batch.k + 1 < batch.n THEN "rec" ELSE "done"]
    /\ BatchFrame

BatchNext ==
    \/ process_recording
    \/ process_recording_annotations
    \/ NextRecording

SpecExtract == BatchInit /\ [][BatchNext]_vars


\* -------------------------------------------------- claims on the export
\* The call a step of the batch has just made, when it made one.
CallMade == Len(batch'.log) = Len(batch.log) + 1
LastCall == batch'.log[Len(batch'.log)]

\* C23: a process function called with overwrite false on an output path
\* that exists returns without opening or modifying any file; called with
\* overwrite true on an existing path it leaves there a header row followed
\* by the rows it extracted, and no other file is changed.
C23_OverwriteGuard ==
    [][CallMade /\ batch.disk[LastCall.name].exists =>
          IF ~batch.overwrite
          THEN /\ LastCall.result = "refused"
               /\ batch'.disk = batch.disk
               /\ batch'.opened = batch.opened
          ELSE /\ LastCall.name \in batch'.opened
               /\ batch'.disk =
                     [batch.disk EXCEPT ![LastCall.name] =
                         [exists |-> TRUE,
                          rows |-> <<Header(LastCall.fn)>> \o
                                   ExtractedRows(LastCall.fn, LastCall.rec,
                                                 LastCall.yielded)]]]_vars

\* Both process functions have refused to touch an existing file.
C23_Witness ==
    /\ ~batch.overwrite
    /\ \E i, j \in 1..Len(batch.log) :
          /\ batch.log[i].fn = "process_recording"
          /\ batch.log[j].fn = "process_recording_annotations"
          /\ batch.log[i].existed /\ batch.log[i].result = "refused"
          /\ batch.log[j].existed /\ batch.log[j].result = "refused"
          /\ batch.disk[batch.log[i].name] = OldFile
          /\ batch.disk[batch.log[j].name] = OldFile

\* With overwrite set, an existing file has been replaced by the header and
\* the extracted rows.
C23_Replaced ==
    /\ batch.overwrite
    /\ \E i \in 1..Len(batch.log) :
          /\ batch.log[i].existed /\ batch.log[i].result = "returned"
          /\ batch.log[i].yielded = MaxRows
          /\ Len(batch.disk[batch.log[i].name].rows) = 1 + MaxRows


\* The name main hands to fn for recording k.
OwnName(fn, k) ==
    IF batch.annotations
    THEN IF fn = "process_recording" THEN 2 * k ELSE 2 * k + 1
    ELSE k

\* The recordings main has entered so far.
Entered ==
    {k \in 0..(batch.n - 1) :
        k < batch.k \/ (k = batch.k /\ batch.pc \in {"ann", "next", "raised"})}

\* C24: a FileNotFoundError or ValueError raised for one recording does not
\* stop the batch: main stops early only on another exception, otherwise it
\* processes every recording, and each call for recording k gets its own
\* output name (csv_out[2k] and csv_out[2k+1] with annotations, csv_out[k]
\* without) whatever happened to the recordings before it.
C24_BatchContinues ==
    /\ \A i \in 1..Len(batch.log) :
          batch.log[i].name = OwnName(batch.log[i].fn, batch.log[i].rec)
    /\ \A k \in Entered :
          \E i \in 1..Len(batch.log) :
             batch.log[i].rec = k /\ batch.log[i].fn = "process_recording"
    /\ batch.pc = "raised" =>
          batch.log[Len(batch.log)].result \notin
             {"returned", "refused", "FileNotFoundError", "ValueError"}
    /\ batch.pc = "done" => batch.k = batch.n
    /\ batch.pc \in {"rec", "ann", "next"} => batch.k < batch.n

\* A batch with annotations has returned after its first recording raised
\* ValueError and its second one was written under its own two names.
C24_Witness ==
    /\ batch.pc = "done"
    /\ batch.annotations
    /\ \E i, j, l \in 1..Len(batch.log) :
          /\ batch.log[i].rec = 0 /\ batch.log[i].result = "ValueError"
          /\ batch.log[j].rec = 1 /\ batch.log[j].result = "returned"
          /\ batch.log[j].fn = "process_recording" /\ batch.log[j].name = 2
          /\ batch.log[l].rec = 1 /\ batch.log[l].result = "returned"
          /\ batch.log[l].fn = "process_recording_annotations"
          /\ batch.log[l].name = 3


\* ------------------------------------------ claims on the legacy dispatch
\* C26: when a run aborts because the declared version predates the oldest
\* supported one, no migration step, the bytes-to-unicode conversion
\* included, has been called or has modified a stored object of the
\* recording (stated for the first run, which starts on untouched objects).
C26_AbortBeforeTransformation ==
    (pc = "raised" /\ failed = "too_old" /\ runs = 1) =>
        /\ called = <<>>
        /\ touched = {}


\* The lower bounds of the legacy dispatch and the conversion each selects.
LegacyBounds == {<<0, 7, 3>>, <<0, 5, 0>>, <<0, 4, 0>>, <<0, 3, 0>>}

ConversionFrom(b) ==
    CASE b = <<0, 7, 3>> -> "v073_to_v074"
      [] b = <<0, 5, 0>> -> "v05_to_v074"
      [] b = <<0, 4, 0>> -> "v04_to_v074"
      [] b = <<0, 3, 0>> -> "v03_to_v074"

\* b is the highest lower bound that is <= v.
HighestBound(b, v) ==
    /\ b \in LegacyBounds
    /\ VLeq(b, v)
    /\ \A c \in LegacyBounds : VLeq(c, v) => VLeq(c, b)

\* The legacy conversions the run has called, in order.
LegacyCalled == SelectSeq(called, LAMBDA s : s \in LegacySteps)

\* The run has left the legacy dispatch.
PastDispatch == rec_version # <<>> /\ pc \notin {"bytes", "legacy"}

\* No legacy conversion is called after an incremental step.
LegacyFirst ==
    \A i, j \in 1..Len(called) :
       called[i] \in LegacySteps /\ called[j] \in IncrementalSteps => i < j

\* C27 as stated: every recording below 0.7.4 gets exactly one legacy
\* conversion, the one of the highest lower bound that is <= its version.
C27_OneLegacyConversion ==
    PastDispatch /\ VLess(rec_version, <<0, 7, 4>>) =>
        \E b \in LegacyBounds :
           HighestBound(b, rec_version) /\ LegacyCalled = <<ConversionFrom(b)>>

\* C27: a recording at or above 0.3 and below 0.7.4 gets exactly one legacy
\* conversion, the one of the highest lower bound among 0.7.3, 0.5, 0.4 and
\* 0.3 that is <= its version, and it is called before every incremental
\* step; a recording at or above 0.7.4 gets none; a recording below 0.3 gets
\* none either, and its run ends in the too-old branch.
C27_OneLegacyConversionWhenSupported ==
    /\ LegacyFirst
    /\ rec_version # <<>> /\ pc \in {"bytes", "legacy"} => LegacyCalled = <<>>
    /\ PastDispatch =>
          IF ~VLess(rec_version, <<0, 7, 4>>) THEN LegacyCalled = <<>>
          ELSE IF Predates
          THEN LegacyCalled = <<>> /\ pc = "raised" /\ failed = "too_old"
          ELSE \E b \in LegacyBounds :
                  /\ HighestBound(b, rec_version)
                  /\ LegacyCalled = <<ConversionFrom(b)>>

\* C27 witness: the run on a recording declaring 0.6 has returned after the
\* 0.5 conversion followed by all incremental steps.
C27_Witness ==
    /\ pc = "done"
    /\ rec_version = <<0, 6, 0>>
    /\ Len(called) > 2
    /\ called[2] = "v05_to_v074"
    /\ called[Len(called)] = "v18_v19"


\* ------------------------------------------- claims on Pupil Mobile runs
\* The steps whose threshold is above 0.9.4, in plan order.
StepsAboveV094 ==
    <<"v094_to_v0913", "v0913_to_v0915", "v0915_v13", "v13_v14", "v14_v18",
      "v18_v19">>

\* C29: a run on a recording that names Pupil Mobile as capture software and
\* has no Data Format Version starts with the Pupil Mobile conversion, which
\* stamps v0.9.4; the steps the run then calls are the steps with threshold
\* above 0.9.4, in order (all of them once the run returns), and neither a
\* step with a threshold at or below 0.9.4, a legacy conversion nor the
\* bytes-to-unicode conversion; a run on a recording that carries a Data
\* Format Version does not call the Pupil Mobile conversion.
C29_MobileStartsAtV094 ==
    runs > 0 =>
        IF CSW \in DOMAIN meta0 /\ meta0[CSW] = "Pupil Mobile"
           /\ DFV \notin DOMAIN meta0
        THEN /\ called # <<>> /\ called[1] = "mobile"
             /\ completed # <<>> /\ completed[1] = "mobile"
             /\ rec_version = <<0, 9, 4>>
             /\ DFV \in DOMAIN meta
             /\ ~VLess(read_rec_version(meta), <<0, 9, 4>>)
             /\ "bytes_to_unicode" \notin Range(called)
             /\ IsPrefix(SelectSeq(called, IsPlanStep), StepsAboveV094)
             /\ pc = "done" => SelectSeq(called, IsPlanStep) = StepsAboveV094
        ELSE DFV \in DOMAIN meta0 => "mobile" \notin Range(called)

\* C29 witness: the run on an unconverted Pupil Mobile recording has returned
\* after the conversion and the six steps above 0.9.4.
C29_Witness ==
    /\ pc = "done"
    /\ DFV \notin DOMAIN meta0
    /\ called[1] = "mobile"
    /\ SelectSeq(called, IsPlanStep) = StepsAboveV094
    /\ read_rec_version(meta) = <<1, 9, 0>>


\* ------------------------------------------ claims on Mutable_Bisector.insert
\* The (timestamp, datum) pairs an index holds, in index order.
PairsOf(b) == [i \in 1..Len(b.data) |-> <<b.data_ts[i], b.data[i]>>]

\* Sequence q without its i-th element.
Without(q, i) ==
    [j \in 1..(Len(q) - 1) |-> IF j < i THEN q[j] ELSE q[j + 1]]

\* This step is a call of insert.
InsertStep == supplied'.inserted # supplied.inserted

\* C30: insert(ts, datum) makes the index one longer, in timestamps and in
\* data, and keeps the pairs held before in their order: the new index is the
\* old one with the pair (ts, datum) put in at one place; a by_ts(ts) that
\* follows returns the datum just inserted, also when ts was in the index
\* before.
C30_InsertKeepsAndFinds ==
    /\ [][InsertStep =>
             /\ Len(bisector'.data_ts) = Len(bisector.data_ts) + 1
             /\ Len(bisector'.data) = Len(bisector.data) + 1
             /\ \E i \in 1..Len(bisector'.data) :
                   /\ PairsOf(bisector')[i] =
                         supplied'.inserted[Len(supplied'.inserted)]
                   /\ Without(PairsOf(bisector'), i) = PairsOf(bisector)]_vars
    /\ [](supplied.inserted # <<>> =>
             LET last == supplied.inserted[Len(supplied.inserted)]
             IN (outcome.op = "by_ts" /\ outcome.args = <<last[1]>>) =>
                   (outcome.raised = "none" /\ outcome.value = <<last[2]>>))

\* C30 witness: a datum was inserted at timestamp 2 into an index that held
\* timestamp 2 twice, and by_ts(2) has returned the inserted datum.
C30_Witness ==
    /\ supplied.data_ts = <<2, 2>>
    /\ supplied.inserted = << <<2, InsertedDatum(1)>> >>
    /\ Len(bisector.data) = 3
    /\ outcome.op = "by_ts"
    /\ outcome.args = <<2>>
    /\ outcome.value = <<InsertedDatum(1)>>


\* ============================================ field-transforming steps
\* Bound of the field model: the data one stream of pupil_data holds.
MaxData == 1

\* The limit of _clamp_norm_point.
ClampLimit == 100

\* A key a datum does not have.
Missing == "missing"

\* Coordinates below, inside and above the clamp range.
Coordinates == {-(ClampLimit + 1), 0, ClampLimit + 1}

\* Gaze data: each of the keys base, base_data, topic and norm_pos is there
\* or not (norm_pos <<>> when it is not).
GazeData ==
    [base : {Missing, "b"}, base_data : {Missing, "bd"},
     topic : {Missing, "pupil"},
     norm_pos : {<<>>} \cup (Coordinates \X Coordinates)]

\* Data of another stream: only the topic key matters to the steps.
OtherData ==
    [base : {Missing}, base_data : {Missing}, topic : {Missing, "gaze"},
     norm_pos : {<<>>}]

ListsOf(S) == UNION {[1..n -> S] : n \in 0..MaxData}

\* A stored pupil_data object: the gaze_positions list, when the object has
\* that key, and the pupil_positions list.
PupilData ==
    [has_gaze : BOOLEAN, gaze_positions : ListsOf(GazeData),
     pupil_positions : ListsOf(OtherData)]

Min(a, b) == IF a <= b THEN a ELSE b
Max(a, b) == IF a >= b THEN a ELSE b

\* _clamp_norm_point (lines 403-408).
_clamp_norm_point(pos) ==
    <<Min(ClampLimit, Max(-ClampLimit, pos[1])),
      Min(ClampLimit, Max(-ClampLimit, pos[2]))>>

\* What a step leaves in the stored object: the transformed object when it
\* reaches fm.save_object, the object as it was when it raises before.
Saved(pupil_data) == [raised |-> "none", pupil_data |-> pupil_data]
KeyError(pupil_data) == [raised |-> "KeyError", pupil_data |-> pupil_data]

\* Variant of the 0.8.3 loop body that also renames base_data back to base
\* when base is not there.
Toggling_rename_base(d) ==
    IF d.base # Missing
    THEN [d EXCEPT !.base_data = d.base, !.base = Missing]
    ELSE [d EXCEPT !.base = d.base_data, !.base_data = Missing]

\* Lines 378-379: if "base" in d: d["base_data"] = d.pop("base").
rename_base(d) ==
    IF d.base # Missing
    THEN [d EXCEPT !.base_data = d.base, !.base = Missing]
    ELSE d

\* update_recording_v082_to_v083 (lines 373-383) on the loaded object: each
\* gaze datum with a base key gets it popped into base_data; the subscript
\* pupil_data["gaze_positions"] raises KeyError without the key.
v082_to_v083(pupil_data) ==
    IF ~pupil_data.has_gaze THEN KeyError(pupil_data)
    ELSE LET gaze == pupil_data.gaze_positions
         IN Saved([pupil_data EXCEPT !.gaze_positions =
                      [i \in DOMAIN gaze |-> rename_base(gaze[i])]])

\* update_recording_v083_to_v086 (lines 386-396): every datum of every
\* stream gets the name of its stream as topic.
v083_to_v086(pupil_data) ==
    LET gaze == pupil_data.gaze_positions
        pupil == pupil_data.pupil_positions
    IN Saved([pupil_data EXCEPT
                !.gaze_positions =
                    [i \in DOMAIN gaze |->
                        [gaze[i] EXCEPT !.topic = "gaze_positions"]],
                !.pupil_positions =
                    [i \in DOMAIN pupil |->
                        [pupil[i] EXCEPT !.topic = "pupil_positions"]]])

\* Lines 411-415: the body of the 0.8.7 loop.
default_topic_and_clamp(g) ==
    [g EXCEPT !.topic = IF g.topic = Missing THEN "gaze" ELSE g.topic,
              !.norm_pos = _clamp_norm_point(g.norm_pos)]

\* update_recording_v086_to_v087 (lines 399-418): a gaze datum without topic
\* gets "gaze" and every norm_pos is clamped; g["norm_pos"] raises KeyError
\* for a datum without it, before anything is saved.
v086_to_v087(pupil_data) ==
    LET gaze == pupil_data.gaze_positions
    IN IF \E i \in DOMAIN gaze : gaze[i].norm_pos = <<>>
       THEN KeyError(pupil_data)
       ELSE Saved([pupil_data EXCEPT !.gaze_positions =
                     [i \in DOMAIN gaze |-> default_topic_and_clamp(gaze[i])]])

\* A pupil_data object is on disk; no step has been applied to it.
FieldInit ==
    /\ \E pupil_data \in PupilData :
          /\ ~pupil_data.has_gaze => pupil_data.gaze_positions = <<>>
          /\ pdata = [pc |-> "stored", pupil_data |-> pupil_data,
                      last |-> "none", raised |-> "none", repeated |-> FALSE]
    /\ corr = NoCorrelation
    /\ batch = NoBatch
    /\ gui = NoGui
    /\ MigAtRest
    /\ BisAtRest

FieldFrame == UNCHANGED <<migVars, bisVars, corr, batch, gui>>

\* A step has loaded the stored object and has saved its result, or has
\* raised before the save.
Applied(step, result) ==
    [pdata EXCEPT !.pupil_data = result.pupil_data,
                  !.raised = result.raised,
                  !.last = step,
                  !.repeated = (pdata.last = step)]

Apply_v082_to_v083 ==
    /\ pdata.pc = "stored"
    /\ pdata' = Applied("v082_to_v083", v082_to_v083(pdata.pupil_data))
    /\ FieldFrame

Apply_v083_to_v086 ==
    /\ pdata.pc = "stored"
    /\ pdata' = Applied("v083_to_v086", v083_to_v086(pdata.pupil_data))
    /\ FieldFrame

Apply_v086_to_v087 ==
    /\ pdata.pc = "stored"
    /\ pdata' = Applied("v086_to_v087", v086_to_v087(pdata.pupil_data))
    /\ FieldFrame

FieldNext == Apply_v082_to_v083 \/ Apply_v083_to_v086 \/ Apply_v086_to_v087

SpecFields == FieldInit /\ [][FieldNext]_vars

\* ------------------------------------------ claims on the field steps
\* C28: each of the 0.8.3, 0.8.6 and 0.8.7 steps is idempotent on the event
\* data: applied again right after itself it leaves the stored pupil_data as
\* its first application left it.
C28_FieldStepsIdempotent ==
    [][pdata'.last = pdata.last => pdata'.pupil_data = pdata.pupil_data]_vars

\* C28 witness: the 0.8.7 step has run twice in a row on a gaze datum without
\* topic whose norm_pos was outside the range, and the datum is clamped.
C28_Witness ==
    /\ pdata.last = "v086_to_v087"
    /\ pdata.repeated
    /\ pdata.raised = "none"
    /\ Len(pdata.pupil_data.gaze_positions) > 0
    /\ pdata.pupil_data.gaze_positions[1].topic = "gaze"
    /\ pdata.pupil_data.gaze_positions[1].norm_pos = <<-ClampLimit, ClampLimit>>


\* ====================================================== appDrag.dragApp
\* Bound of the GUI model: the URLs of one drop.
MaxUrls == 2

\* Directory names, as strings of characters: a plain one, one that holds an
\* underscore, a hidden one; and the name of the export folder.
Plain == <<"a">>
Underscored == <<"b", "_", "c">>
Hidden == <<".", "h">>
ExportsDir == <<"e">>

\* A path is the sequence of its names; the empty path is the empty string.
\* The folders the model has on disk, besides hidden ones: a top folder, two
\* entries in it, and one entry in the second of them.
Folders ==
    {<<Plain>>, <<Plain, Plain>>, <<Plain, Underscored>>,
     <<Plain, Underscored, Plain>>}

Parent(path) == SubSeq(path, 1, Len(path) - 1)

\* What a path is on disk: a recording (a directory with a readable
\* info.csv), another directory, or a file.
Kinds == {"rec", "dir", "file"}

\* The orders os.listdir can give.
Listings == {<<Plain, Underscored, Hidden>>, <<Hidden, Underscored, Plain>>}

\* The disks: a kind for every folder, where what is below a recording or a
\* file does not matter and counts as a file, and an order of the listings.
\* Every directory that is not a recording also holds a hidden recording.
Disks ==
    {fs \in [kind : [Folders -> Kinds], listing : Listings] :
        \A path \in Folders :
           (Len(path) > 1 /\ fs.kind[Parent(path)] # "dir")
              => fs.kind[path] = "file"}

\* os.path.isdir(path) (line 185).
isdir(fs, path) ==
    \/ path \in Folders /\ fs.kind[path] # "file"
    \/ /\ Len(path) > 1
       /\ path[Len(path)] = Hidden
       /\ Parent(path) \in Folders
       /\ fs.kind[Parent(path)] = "dir"

\* is_pupil_rec_dir(path) (player_methods.py lines 859-870).
is_pupil_rec_dir(fs, path) ==
    /\ isdir(fs, path)
    /\ path \in Folders => fs.kind[path] = "rec"

\* os.listdir(path) (line 198): the entries of a directory, in the order of
\* the disk.
listdir(fs, path) ==
    SelectSeq(fs.listing,
              LAMBDA di : di = Hidden \/ Append(path, di) \in Folders)

RECURSIVE getTree(_, _)
RECURSIVE look_into(_, _, _, _)

\* Variant of the loop of getTree that takes the levels of a subdirectory as
\* they are, without the name of the directory in front.
Unprefixed_look_into(fs, path, dirs, found) ==
    IF dirs = <<>> THEN found
    ELSE LET di == Head(dirs)
             sub == getTree(fs, Append(path, di))
         IN IF di[1] = "." \/ Len(sub.recordings) = 0
            THEN look_into(fs, path, Tail(dirs), found)
            ELSE look_into(fs, path, Tail(dirs),
                           [recordings |-> found.recordings \o sub.recordings,
                            level |-> found.level \o sub.level])

\* Lines 199-218: the loop of getTree over the entries of a directory; found
\* holds recordings and level as they are so far.
look_into(fs, path, dirs, found) ==
    IF dirs = <<>> THEN found
    ELSE LET di == Head(dirs)
             cur_di == path[Len(path)]
             sub == getTree(fs, Append(path, di))
             new_level == [i \in DOMAIN sub.level |->
                              cur_di \o <<"_">> \o sub.level[i]]
         IN IF di[1] = "." \/ Len(sub.recordings) = 0
            THEN look_into(fs, path, Tail(dirs), found)
            ELSE look_into(fs, path, Tail(dirs),
                           [recordings |-> found.recordings \o sub.recordings,
                            level |-> found.level \o new_level])

\* getTree (lines 176-220): the recordings at or below path and their
\* levels.  The tree item it returns too is never None.
getTree(fs, path) ==
    IF ~isdir(fs, path) THEN [recordings |-> <<>>, level |-> <<>>]
    ELSE IF is_pupil_rec_dir(fs, path)
    THEN [recordings |-> <<path>>, level |-> <<path[Len(path)]>>]
    ELSE look_into(fs, path, listdir(fs, path),
                   [recordings |-> <<>>, level |-> <<>>])

\* getTree for every disk and every folder of the model.
TreeTable == [fs \in Disks |-> [path \in Folders |-> getTree(fs, path)]]


\* What the user can type into the target field.
Typed == {<<>>, <<Plain>>}

\* dragApp.__init__ (lines 14-38) and setup_side_panel (lines 58-83): no
\* target path, nothing loaded, the checkboxes unchecked, the target field
\* empty and hidden, the wait label shown.  exported holds the calls of
\* process_recording the last event made; export_result is "none" unless
\* the last event was a click on Export, and then "returned" or the
\* exception that left the slot.
GuiInit ==
    /\ \E fs \in Disks :
          gui = [pc |-> "shown", fs |-> fs, target_path |-> <<>>,
                 text |-> <<>>, loaded |-> FALSE, recordings |-> <<>>,
                 levels |-> <<>>, group |-> FALSE, visible |-> FALSE,
                 page |-> "wait",
                 exported |-> <<>>, export_result |-> "none"]
    /\ corr = NoCorrelation
    /\ batch = NoBatch
    /\ pdata = NoEventData
    /\ MigAtRest
    /\ BisAtRest

GuiFrame == UNCHANGED <<migVars, bisVars, corr, batch, pdata>>

\* changed_text (lines 132-133), the slot of target.textChanged.
changed_text(g) == [g EXCEPT !.target_path = g.text]

\* QLineEdit.setText: the text is replaced, and textChanged is emitted when
\* the new text differs from the old one.
setText(g, s) ==
    IF s = g.text THEN g ELSE changed_text([g EXCEPT !.text = s])

RECURSIVE url_loop(_, _)

\* Lines 98-119: the loop of dropEvent over the URLs; st holds the locals
\* recordings and levels and the window.
url_loop(urls, st) ==
    IF urls = <<>> THEN st
    ELSE LET path == Head(urls)
             url == TreeTable[st.g.fs][path]
         IN url_loop(Tail(urls),
               [recordings |-> st.recordings \o url.recordings,
                levels |-> st.levels \o url.level,
                g |-> IF Len(st.g.target_path) < 1
                      THEN setText(st.g, Append(path, ExportsDir))
                      ELSE st.g])

\* What a drag can carry (line 98, data.urls()): n folders, each once, in any
\* order.
Selections(n) ==
    {urls \in [1..n -> Folders] :
        \A i, j \in 1..n : urls[i] = urls[j] => i = j}

\* dropEvent (lines 86-123): target_path is emptied, the URLs are walked, and
\* when there was a URL the lists found replace recordings and levels.
dropEvent ==
    /\ gui.pc = "shown"
    /\ \E n \in 0..MaxUrls :
          \E urls \in Selections(n) :
             LET st == url_loop(urls, [recordings |-> <<>>, levels |-> <<>>,
                                       g |-> [gui EXCEPT !.target_path = <<>>]])
             IN gui' = IF urls = <<>>
                       THEN [st.g EXCEPT !.exported = <<>>, !.export_result = "none"]
                       ELSE [st.g EXCEPT !.loaded = TRUE,
                                         !.recordings = st.recordings,
                                         !.levels = st.levels,
                                         !.page = "tree",
                                         !.exported = <<>>,
                                         !.export_result = "none"]
    /\ GuiFrame

\* The user edits the target field, which is possible while it is visible.
EditText ==
    /\ gui.pc = "shown"
    /\ gui.visible
    /\ \E s \in Typed :
          gui' = [setText(gui, s) EXCEPT !.exported = <<>>, !.export_result = "none"]
    /\ GuiFrame

\* clicked_checkbox (lines 135-136): a click on 'Group exports' checks or
\* unchecks it and shows or hides the target field.
clicked_checkbox ==
    /\ gui.pc = "shown"
    /\ gui' = [gui EXCEPT !.group = ~@, !.visible = ~@,
                          !.exported = <<>>, !.export_result = "none"]
    /\ GuiFrame


\* str.index('_'): the 1-based position of the first underscore of a string,
\* 0 when it has none (where str.index raises ValueError).
index_of_underscore(lvl) ==
    IF \E k \in 1..Len(lvl) : lvl[k] = "_"
    THEN CHOOSE k \in 1..Len(lvl) :
            lvl[k] = "_" /\ \A j \in 1..(k - 1) : lvl[j] # "_"
    ELSE 0

\* Lines 159-160: os.mkdir is called for a target that does not exist; it
\* raises for the empty path and for a path whose parent is not a directory.
mkdir_raises(fs, target) ==
    \/ target = <<>>
    \/ Len(target) > 1 /\ ~isdir(fs, SubSeq(target, 1, Len(target) - 1))

\* The file names of lines 150, 157, 164 and 166, without the '.csv'.
pupil_positions == <<"pupil_positions">>
annotations == <<"annotations">>

RECURSIVE export_loop(_, _, _, _, _, _)

\* Lines 149-168: the loop of clicked_export from the i-th pair of
\* zip(recordings, level) on; calls holds the calls made so far, and the
\* process functions raise at the pair fail_at (at none when it is 0).  omit
\* and annotation are what the checkboxes 'Omit first level' and 'Export
\* annotations' (lines 67-68, no slot) hold when Export is clicked.
export_loop(g, omit, annotation, i, fail_at, calls) ==
    IF i > Len(g.recordings) \/ i > Len(g.levels)
    THEN [calls |-> calls, raised |-> "none"]
    ELSE LET rec == g.recordings[i]
             cut == index_of_underscore(g.levels[i])
             lvl == IF omit
                    THEN SubSeq(g.levels[i], cut + 1, Len(g.levels[i]))
                    ELSE g.levels[i]
             target == IF g.group THEN g.target_path
                       ELSE Append(rec, ExportsDir)
             suffix == IF g.group THEN <<"_">> \o lvl ELSE <<>>
             call == [rec |-> rec, pair |-> i, target |-> target,
                      pupil |-> pupil_positions \o suffix,
                      notes |-> IF annotation THEN annotations \o suffix
                                ELSE <<>>]
         IN IF omit /\ cut = 0
            THEN [calls |-> calls, raised |-> "ValueError"]
            ELSE IF mkdir_raises(g.fs, target)
            THEN [calls |-> calls, raised |-> "OSError"]
            ELSE IF i = fail_at
            THEN [calls |-> Append(calls, call), raised |-> "Exception"]
            ELSE export_loop(g, omit, annotation, i + 1, fail_at,
                             Append(calls, call))

\* Variant of clicked_export that shows 'Done!' and keeps what is loaded.
Keeping_clicked_export ==
    /\ gui.pc = "shown"
    /\ IF ~gui.loaded
       THEN gui' = [gui EXCEPT !.exported = <<>>, !.export_result = "returned"]
       ELSE \E omit, annotation \in BOOLEAN, fail_at \in 0..Len(gui.recordings) :
               LET done == export_loop(gui, omit, annotation, 1, fail_at, <<>>)
               IN gui' = IF done.raised # "none"
                         THEN [gui EXCEPT !.exported = done.calls,
                                          !.export_result = done.raised]
                         ELSE [gui EXCEPT !.exported = done.calls,
                                          !.export_result = "returned",
                                          !.page = "done"]
    /\ GuiFrame

\* clicked_export (lines 138-174): nothing happens while recordings is None;
\* otherwise every pair is exported and then the window goes back to the
\* wait label and forgets target path, recordings and levels.  An exception
\* leaves the slot before line 170.
clicked_export ==
    /\ gui.pc = "shown"
    /\ IF ~gui.loaded
       THEN gui' = [gui EXCEPT !.exported = <<>>, !.export_result = "returned"]
       ELSE \E omit, annotation \in BOOLEAN, fail_at \in 0..Len(gui.recordings) :
               LET done == export_loop(gui, omit, annotation, 1, fail_at, <<>>)
               IN gui' = IF done.raised # "none"
                         THEN [gui EXCEPT !.exported = done.calls,
                                          !.export_result = done.raised]
                         ELSE [gui EXCEPT !.exported = done.calls,
                                          !.export_result = "returned",
                                          !.page = "done",
                                          !.target_path = <<>>,
                                          !.loaded = FALSE,
                                          !.recordings = <<>>,
                                          !.levels = <<>>]
    /\ GuiFrame

GuiNext ==
    \/ dropEvent
    \/ EditText
    \/ clicked_checkbox
    \/ clicked_export

SpecGui == GuiInit /\ [][GuiNext]_vars


\* ------------------------------------------------------ claims on the GUI
\* C31: whenever recordings are loaded (self.recordings is not None), the
\* target path in self.target_path is the text the target field shows, after
\* any drops, edits, checkbox clicks and exports; after a drop it is therefore
\* not empty.
C31_TargetPathIsFieldText ==
    (gui.pc = "shown" /\ gui.loaded) => gui.target_path = gui.text


RECURSIVE JoinNames(_)

\* The names of a path joined with '_'.
JoinNames(names) ==
    IF Len(names) = 1 THEN names[1]
    ELSE names[1] \o <<"_">> \o JoinNames(Tail(names))

\* C32: for every folder, getTree returns as many levels as recordings, each
\* recording is a recording directory at or below the folder and not inside
\* a hidden one, and level i is the names of recording i from the folder's
\* own name on, joined with '_'; and whenever recordings are loaded in the
\* window, self.levels is as long as self.recordings and level i is such a
\* join of the last names of recording i.
C32_LevelsMatchRecordings ==
    gui.pc = "shown" =>
        /\ \A path \in Folders :
              LET found == getTree(gui.fs, path)
              IN /\ Len(found.recordings) = Len(found.level)
                 /\ \A i \in 1..Len(found.recordings) :
                       LET rec == found.recordings[i]
                       IN /\ is_pupil_rec_dir(gui.fs, rec)
                          /\ Len(rec) >= Len(path)
                          /\ SubSeq(rec, 1, Len(path)) = path
                          /\ \A k \in (Len(path) + 1)..Len(rec) : rec[k][1] # "."
                          /\ found.level[i] =
                                JoinNames(SubSeq(rec, Len(path), Len(rec)))
        /\ gui.loaded =>
              /\ Len(gui.levels) = Len(gui.recordings)
              /\ \A i \in 1..Len(gui.recordings) :
                    \E k \in 1..Len(gui.recordings[i]) :
                       gui.levels[i] =
                          JoinNames(SubSeq(gui.recordings[i], k,
                                           Len(gui.recordings[i])))

\* C32 witness: a drop of two folders has loaded the recording a/b_c/a with
\* the level a_b_c_a and, after it, a recording with a shorter level.
C32_Witness ==
    /\ gui.loaded
    /\ Len(gui.recordings) >= 2
    /\ Len(gui.levels) = Len(gui.recordings)
    /\ gui.recordings[1] = <<Plain, Underscored, Plain>>
    /\ gui.levels[1] = <<"a", "_", "b", "_", "c", "_", "a">>
    /\ Len(gui.levels[Len(gui.levels)]) < Len(gui.levels[1])


\* This step ends with a click on Export that returned.
ExportReturned == gui'.export_result = "returned"

\* The click changed nothing in the window and made no call.
NothingExported ==
    /\ gui'.exported = <<>>
    /\ [gui' EXCEPT !.export_result = "none"]
          = [gui EXCEPT !.exported = <<>>, !.export_result = "none"]

\* The click made one call for every pair of recordings and levels, in
\* order, with the recording of the pair.
EveryPairExported ==
    /\ Len(gui'.exported) = Len(gui.recordings)
    /\ \A i \in 1..Len(gui.recordings) :
          /\ gui'.exported[i].pair = i
          /\ gui'.exported[i].rec = gui.recordings[i]

\* The click left nothing loaded and no target path.
Cleared ==
    /\ ~gui'.loaded
    /\ gui'.recordings = <<>>
    /\ gui'.levels = <<>>
    /\ gui'.target_path = <<>>

\* C33 as stated: a completed export calls process_recording exactly once
\* for each recording that is loaded.
C33_EachRecordingOnce ==
    [][(ExportReturned /\ gui.loaded) =>
          \A r \in Range(gui.recordings) :
             Cardinality({i \in 1..Len(gui'.exported) :
                             gui'.exported[i].rec = r}) = 1]_vars

\* C33: a click on Export while recordings is None makes no call and changes
\* nothing; a click that completes with recordings loaded makes exactly one
\* call for each entry of the recordings list (a recording that is in the
\* list twice, through two dropped folders that hold it, is exported twice)
\* and then clears recordings, levels and target path, so that a further
\* click without a new drop makes no call.
C33_ExportOncePerEntryThenClears ==
    [][ExportReturned =>
          IF gui.loaded THEN EveryPairExported /\ Cleared
          ELSE NothingExported]_vars

\* C33 witness: an export of three entries, two of them the same recording,
\* has completed and the window is cleared.
C33_Witness ==
    /\ gui.export_result = "returned"
    /\ gui.page = "done"
    /\ ~gui.loaded
    /\ gui.target_path = <<>>
    /\ Len(gui.exported) = 3
    /\ \E i, j \in 1..3 : i # j /\ gui.exported[i].rec = gui.exported[j].rec

\* After a completed export a second click has returned without a call.
C33_SecondClick ==
    /\ gui.export_result = "returned"
    /\ gui.page = "done"
    /\ gui.exported = <<>>

====
